---- MODULE Spec2Model ----
(***************************************************************************)
(* Model of the repository crawling / chunking / index-lifecycle code of   *)
(* backend/puller.py and backend/moss_indexer.py.                          *)
(*                                                                         *)
(* Strings are sequences of one-character strings, so that stripping,      *)
(* pattern matching, lower-casing and character replacement are computed   *)
(* as the Python code computes them.  Three non-ASCII characters are       *)
(* written by their code point: "U+00E9" (e with acute, alphanumeric),     *)
(* "U+0130" (capital I with dot above, whose lower case is the two         *)
(* characters "i" "U+0307") and "U+0307" (combining dot above).            *)
(***************************************************************************)
EXTENDS Integers, Sequences, FiniteSets, TLC

VARIABLES
    refOwner,     \* normalizer run: the owner the reference forms are built from
    refName,      \* normalizer run: the repository name they are built from
    formOut,      \* normalizer run: per reference form, the outcome of _generate_index_name
    lastRef,      \* normalizer run: the literal reference last passed to _generate_index_name
    lastOut,      \* normalizer run: the outcome of that call
    repoFiles,    \* walk: the file paths the repository holds
    maxFiles,     \* walk: the max_files argument of fetch_python_files
    wpc,          \* walk: position of fetch_python_files
    contents,     \* walk: the pending queue of directory entries
    pythonFiles,  \* walk: the collected file paths (python_files)
    listReq,      \* walk: directories whose listing was requested
    listFail,     \* walk: directory listings that failed, with the response status
    decodeReq,    \* walk: files whose content was requested
    decodeFail,   \* walk: files whose content could not be fetched or decoded
    walkOut,      \* walk: what fetch_python_files returned or raised
    haveCredentials, \* index service: MOSS_PROJECT_ID and MOSS_API_KEY are both set
    listingShape, \* index service: what list_indexes() yields, names or IndexInfo objects
    repoRef,      \* the repository reference the run's callers pass
    repoChunks,   \* the number of chunks pull_and_chunk_repo extracts from that repository
    skipFlag,     \* lifecycle: the skip_if_exists argument of the run's calls
    autoLoad,     \* search: the auto_load argument of the run's calls
    topK,         \* search: the top_k argument of the run's calls
    indexes,      \* index service: the indexes it holds, with state and documents
    svcLog,       \* index service: the calls received, in order
    todo,         \* per caller: the operations it still has to call, in order
    ops,          \* the operations started so far, with arguments and outcome
    frame,        \* per caller: the operation it is in and its position
    nulError,     \* chunking: what ast.parse raises on a null byte (interpreter version)
    fetched,      \* chunking: the (path, content) list fetch_python_files returned
    cpc,          \* chunking: position of pull_and_chunk_repo
    fileNo,       \* chunking: how many files of the list the loop has gone through
    allChunks,    \* chunking: the chunks collected so far (all_chunks)
    parseLog,     \* chunking: the calls of parse_python_file, with their outcome
    chunkOut,     \* chunking: what pull_and_chunk_repo returned or raised
    createIssues, \* pipeline: the create_github_issues argument of run_ai_pipeline
    targetRepo,   \* pipeline: the target_repo argument (empty for None)
    mcpUrlSet,    \* pipeline: COMPOSIO_MCP_URL is set in the environment
    modelIssues,  \* pipeline: the issues the analysis model writes in its answer
    ppc,          \* pipeline: position of run_ai_pipeline
    issues,       \* pipeline: the issues list of analyze_api_tests
    issueNo,      \* pipeline: how many issues the issue loop has gone through
    issueCalls,   \* issue filer: the create-issue calls received, in order
    issueResults, \* pipeline: issue_results of analyze_api_tests
    pipeOut       \* pipeline: what run_ai_pipeline returned or raised

normVars == <<refOwner, refName, formOut, lastRef, lastOut>>

walkVars == <<repoFiles, maxFiles, wpc, contents, pythonFiles, listReq, listFail,
              decodeReq, decodeFail, walkOut>>

\* The parameters of a run of the lifecycle and search operations, fixed at its start.
runParams == <<haveCredentials, listingShape, repoRef, repoChunks, skipFlag, autoLoad, topK>>

idxVars == <<runParams, indexes, svcLog, todo, ops, frame>>

chunkVars == <<nulError, fetched, cpc, fileNo, allChunks, parseLog, chunkOut>>

pipeVars == <<createIssues, targetRepo, mcpUrlSet, modelIssues, ppc, issues, issueNo,
              issueCalls, issueResults, pipeOut>>

vars == <<normVars, walkVars, idxVars, chunkVars, pipeVars>>

\* What an operation of one component leaves alone.
notNorm == <<walkVars, idxVars, chunkVars, pipeVars>>
notWalk == <<normVars, idxVars, chunkVars, pipeVars>>
notIdx == <<normVars, walkVars, chunkVars, pipeVars>>
notChunk == <<normVars, walkVars, idxVars, pipeVars>>
notPipe == <<normVars, walkVars, idxVars, chunkVars>>

-----------------------------------------------------------------------------
(* Bounds of the model *)

MaxOwnerLen == 1
MaxNameLen == 2
MaxFilesBound == 3
MaxChunks == 2
MaxFetched == 2
MaxIssues == 2

-----------------------------------------------------------------------------
(* Characters *)

AsciiLower == {"a", "b", "c", "f", "g", "h", "i", "m", "o", "p", "r", "s", "t", "u"}
AsciiUpper == {"B", "F", "G", "H", "P", "S", "T"}
AsciiDigit == {"7"}
Whitespace == {" "}

\* str.isalnum() of one character: true of every Unicode letter and digit.
IsAlnum(c) == c \in AsciiLower \cup AsciiUpper \cup AsciiDigit \cup {"U+00E9", "U+0130"}

\* str.lower() of one character, as a string (one character may become two).
LowerChar(c) ==
    CASE c = "B" -> <<"b">>
      [] c = "F" -> <<"f">>
      [] c = "G" -> <<"g">>
      [] c = "H" -> <<"h">>
      [] c = "P" -> <<"p">>
      [] c = "S" -> <<"s">>
      [] c = "T" -> <<"t">>
      [] c = "U+0130" -> <<"i", "U+0307">>
      [] OTHER -> <<c>>

RECURSIVE Lower(_)
Lower(s) == IF s = <<>> THEN <<>> ELSE LowerChar(Head(s)) \o Lower(Tail(s))

\* str.rstrip(chars): drop trailing characters while they are in the set chars.
RECURSIVE RStrip(_, _)
RStrip(s, chars) ==
    IF s # <<>> /\ s[Len(s)] \in chars THEN RStrip(SubSeq(s, 1, Len(s) - 1), chars) ELSE s

RECURSIVE LStrip(_, _)
LStrip(s, chars) ==
    IF s # <<>> /\ Head(s) \in chars THEN LStrip(Tail(s), chars) ELSE s

\* str.strip()
Strip(s) == RStrip(LStrip(s, Whitespace), Whitespace)

\* The longest run of characters other than "/" that starts at position k.
RECURSIVE NonSlashRun(_, _)
NonSlashRun(s, k) ==
    IF k > Len(s) \/ s[k] = "/" THEN <<>> ELSE <<s[k]>> \o NonSlashRun(s, k + 1)

HostMarker == <<"g", "i", "t", "h", "u", "b", ".", "c", "o", "m", "/">>

\* re.search(r'github\.com/([^/]+)/([^/]+)', u) started at position k.
MatchHostAt(u, k) ==
    LET a == k + Len(HostMarker)
        g1 == NonSlashRun(u, a)
        b == a + Len(g1)
        g2 == NonSlashRun(u, b + 1)
    IN  IF /\ k + Len(HostMarker) - 1 <= Len(u)
           /\ SubSeq(u, k, k + Len(HostMarker) - 1) = HostMarker
           /\ g1 # <<>>
           /\ b <= Len(u) /\ u[b] = "/"
           /\ g2 # <<>>
        THEN [ok |-> TRUE, owner |-> g1, repo |-> g2]
        ELSE [ok |-> FALSE]

\* The leftmost position at which the host-qualified pattern matches.
SearchHost(u) ==
    LET hits == {k \in 1..Len(u) : MatchHostAt(u, k).ok}
    IN  IF hits = {} THEN [ok |-> FALSE]
        ELSE MatchHostAt(u, CHOOSE k \in hits : \A j \in hits : k <= j)

\* re.search(r'^([^/]+)/([^/]+)$', u)
MatchBare(u) ==
    LET g1 == NonSlashRun(u, 1)
        g2 == NonSlashRun(u, Len(g1) + 2)
    IN  IF /\ g1 # <<>>
           /\ Len(g1) + 1 <= Len(u) /\ u[Len(g1) + 1] = "/"
           /\ g2 # <<>>
           /\ Len(g1) + 1 + Len(g2) = Len(u)
        THEN [ok |-> TRUE, owner |-> g1, repo |-> g2]
        ELSE [ok |-> FALSE]

GitSuffixChars == {".", "g", "i", "t"}

\* Mutant of CleanUrl: the two right-strips in the other order.
CleanUrlGitFirst(url) == RStrip(RStrip(Strip(url), GitSuffixChars), {"/"})

\* url.strip().rstrip('/').rstrip('.git')
CleanUrl(url) == RStrip(RStrip(Strip(url), {"/"}), GitSuffixChars)

\* parse_github_url: [ok |-> TRUE, owner, repo], or [ok |-> FALSE] for ValueError.
parse_github_url(url) ==
    LET u == CleanUrl(url)
        m1 == SearchHost(u)
        m2 == MatchBare(u)
    IN  IF m1.ok THEN m1 ELSE IF m2.ok THEN m2 ELSE [ok |-> FALSE]

\* ''.join(c if c.isalnum() or c == '-' else '-' for c in index_name)
RECURSIVE CleanName(_)
CleanName(s) ==
    IF s = <<>> THEN <<>>
    ELSE <<IF IsAlnum(Head(s)) \/ Head(s) = "-" THEN Head(s) ELSE "-">> \o CleanName(Tail(s))

\* f"{owner}-{repo}".lower(), then the character replacement.
IndexNameOf(owner, repo) == CleanName(Lower(owner \o <<"-">> \o repo))

\* _generate_index_name: [ok |-> TRUE, owner, repo, ident], or [ok |-> FALSE] when
\* parse_github_url raises ValueError.
generate_index_name(url) ==
    LET p == parse_github_url(url)
    IN  IF p.ok THEN [ok |-> TRUE, owner |-> p.owner, repo |-> p.repo,
                      ident |-> IndexNameOf(p.owner, p.repo)]
        ELSE [ok |-> FALSE]

-----------------------------------------------------------------------------
(* Reference forms of one repository *)

Forms == {"bare", "url", "url_git", "url_slash"}

UrlPrefix == <<"h", "t", "t", "p", "s", ":", "/", "/">> \o HostMarker

FormRef(f, owner, name) ==
    CASE f = "bare" -> owner \o <<"/">> \o name
      [] f = "url" -> UrlPrefix \o owner \o <<"/">> \o name
      [] f = "url_git" -> UrlPrefix \o owner \o <<"/">> \o name \o <<".", "g", "i", "t">>
      [] f = "url_slash" -> UrlPrefix \o owner \o <<"/">> \o name \o <<"/">>

OwnerChars == {"a", "B", "U+00E9", "U+0130"}
NameChars == {"a", "B", "t", ".", "_"}

StringsOver(chars, n) == UNION {[1..k -> chars] : k \in 1..n}

Owners == StringsOver(OwnerChars, MaxOwnerLen)
Names == StringsOver(NameChars, MaxNameLen)

\* "HTTPS://GitHub.com/Foo/Bar.git/"
RefMixedCase ==
    <<"H", "T", "T", "P", "S", ":", "/", "/", "G", "i", "t", "H", "u", "b", ".", "c", "o", "m",
      "/", "F", "o", "o", "/", "B", "a", "r", ".", "g", "i", "t", "/">>

\* "https://github.com/Foo/Bar.git/"
RefLowerHost ==
    UrlPrefix \o <<"F", "o", "o", "/", "B", "a", "r", ".", "g", "i", "t", "/">>

\* " github.com/Foo/Bar/tru/m " : no scheme, extra path segments, blanks around
RefExtraPath ==
    <<" ">> \o HostMarker \o <<"F", "o", "o", "/", "B", "a", "r", "/", "t", "r", "u", "/", "m", " ">>

\* "Foo" : no slash at all
RefNoSlash == <<"F", "o", "o">>

ScenarioRefs == {RefMixedCase, RefLowerHost, RefExtraPath, RefNoSlash}

NotCalled == [called |-> FALSE]
Called(out) == [called |-> TRUE, out |-> out]

-----------------------------------------------------------------------------
(* Normalizer runs *)

NormIdle ==
    /\ refOwner = <<>>
    /\ refName = <<>>
    /\ formOut = [f \in Forms |-> NotCalled]
    /\ lastRef = <<>>
    /\ lastOut = NotCalled

WalkIdle ==
    /\ repoFiles = {}
    /\ maxFiles = 1
    /\ wpc = "idle"
    /\ contents = <<>>
    /\ pythonFiles = <<>>
    /\ listReq = {}
    /\ listFail = {}
    /\ decodeReq = {}
    /\ decodeFail = {}
    /\ walkOut = [kind |-> "none"]

Callers == {"c1", "c2"}

IdleFrame == [pc |-> "idle"]

IdxIdle ==
    /\ haveCredentials = TRUE
    /\ listingShape = "str"
    /\ repoRef = <<>>
    /\ repoChunks = 0
    /\ skipFlag = TRUE
    /\ autoLoad = TRUE
    /\ topK = 1
    /\ indexes = {}
    /\ svcLog = <<>>
    /\ todo = [c \in Callers |-> <<>>]
    /\ ops = <<>>
    /\ frame = [c \in Callers |-> IdleFrame]

ChunkIdle ==
    /\ nulError = "SyntaxError"
    /\ fetched = <<>>
    /\ cpc = "idle"
    /\ fileNo = 0
    /\ allChunks = <<>>
    /\ parseLog = <<>>
    /\ chunkOut = [kind |-> "none"]

PipeIdle ==
    /\ createIssues = TRUE
    /\ targetRepo = <<>>
    /\ mcpUrlSet = FALSE
    /\ modelIssues = <<>>
    /\ ppc = "idle"
    /\ issues = <<>>
    /\ issueNo = 0
    /\ issueCalls = <<>>
    /\ issueResults = <<>>
    /\ pipeOut = [kind |-> "none"]

InitNorm ==
    /\ WalkIdle
    /\ IdxIdle
    /\ ChunkIdle
    /\ PipeIdle
    /\ refOwner \in Owners
    /\ refName \in Names
    /\ formOut = [f \in Forms |-> NotCalled]
    /\ lastRef = <<>>
    /\ lastOut = NotCalled

\* _generate_index_name applied to one reference form of (refOwner, refName).
GenerateIndexNameOfForm(f) ==
    /\ ~formOut[f].called
    /\ formOut' = [formOut EXCEPT ![f] = Called(generate_index_name(FormRef(f, refOwner, refName)))]
    /\ lastRef' = FormRef(f, refOwner, refName)
    /\ lastOut' = Called(generate_index_name(FormRef(f, refOwner, refName)))
    /\ UNCHANGED <<refOwner, refName, notNorm>>

\* _generate_index_name applied to a literal reference.
GenerateIndexNameOfRef(r) ==
    /\ lastRef # r
    /\ lastRef' = r
    /\ lastOut' = Called(generate_index_name(r))
    /\ UNCHANGED <<refOwner, refName, formOut, notNorm>>

NextNorm ==
    \/ \E f \in Forms : GenerateIndexNameOfForm(f)
    \/ \E r \in ScenarioRefs : GenerateIndexNameOfRef(r)

SpecNorm == InitNorm /\ [][NextNorm]_vars

-----------------------------------------------------------------------------
(* The tree walker: fetch_python_files *)

EXCLUDED_DIRS ==
    {"venv", ".venv", "env", ".env", "__pycache__", ".git", ".github", "node_modules",
     "dist", "build", ".pytest_cache", ".tox", "htmlcov", "site-packages"}

EXCLUDED_EXTENSIONS == {".pyc", ".pyo", ".pyd"}

\* The directories of the modelled repository, and every file it may hold, in the
\* order the source-control service lists them.  A path is its sequence of segments.
RepoDirs == {<<"src">>, <<"venv">>, <<"src", "build">>, <<"src", "pkg">>}

ListingOrder ==
    << <<"a.py">>, <<"b.txt">>, <<"src">>, <<"venv">>, <<"z.py">>,
       <<"src", "build">>, <<"src", "m.py">>, <<"src", "n.py">>, <<"src", "pkg">>,
       <<"src", "build", "g.py">>,
       <<"src", "pkg", "p.py">>, <<"src", "pkg", "q.pyc">>,
       <<"venv", "v.py">> >>

\* Files every modelled repository holds (none of them eligible).
FixedFiles == {<<"b.txt">>, <<"src", "build", "g.py">>, <<"src", "pkg", "q.pyc">>, <<"venv", "v.py">>}

\* Files a modelled repository may or may not hold.
OptionalFiles == {<<"a.py">>, <<"z.py">>, <<"src", "m.py">>, <<"src", "n.py">>, <<"src", "pkg", "p.py">>}

\* Path(name).suffix
Suffix(name) ==
    CASE name \in {"a.py", "z.py", "m.py", "n.py", "p.py", "g.py", "v.py"} -> ".py"
      [] name = "q.pyc" -> ".pyc"
      [] name = "b.txt" -> ".txt"
      [] OTHER -> ""

\* Mutant of should_skip_path: only the top segment of the path is tested against
\* the excluded directories.
should_skip_path_top_segment(path) ==
    \/ path[1] \in EXCLUDED_DIRS
    \/ Suffix(path[Len(path)]) \in EXCLUDED_EXTENSIONS
    \/ Suffix(path[Len(path)]) # ".py"

\* _should_skip_path
should_skip_path(path) ==
    \/ \E k \in 1..Len(path) : path[k] \in EXCLUDED_DIRS
    \/ Suffix(path[Len(path)]) \in EXCLUDED_EXTENSIONS
    \/ Suffix(path[Len(path)]) # ".py"

IsPrefix(d, path) == Len(d) <= Len(path) /\ SubSeq(path, 1, Len(d)) = d

Parent(path) == SubSeq(path, 1, Len(path) - 1)

Exists(path) == path \in RepoDirs \/ path \in repoFiles

EntryOf(path) == [type |-> IF path \in RepoDirs THEN "dir" ELSE "file", path |-> path]

\* repository.get_contents(d): the entries directly under d, in the service's order.
RECURSIVE ListingFrom(_, _)
ListingFrom(d, k) ==
    IF k > Len(ListingOrder) THEN <<>>
    ELSE (IF Exists(ListingOrder[k]) /\ Parent(ListingOrder[k]) = d
          THEN <<EntryOf(ListingOrder[k])>> ELSE <<>>) \o ListingFrom(d, k + 1)

get_contents(d) == ListingFrom(d, 1)

\* The response statuses of a failed request (GithubException.status).
FailStatuses == {403, 404, 500}

\* Why a file's content is not appended: the text does not decode, or the fetch of
\* the content is answered with a rate-limit response.
DecodeFailKinds == {"UnicodeDecodeError", "GithubException403"}

\* Mutant of AtLimit: the limit is reached one file late.
AtLimitLate(n) == n > maxFiles

\* Mutant of AtLimit: the limit is reached one file early.
AtLimitEarly(n) == n >= maxFiles - 1

\* len(python_files) >= max_files: the break test, and the negation of the loop test.
AtLimit(n) == n >= maxFiles

\* while contents and len(python_files) < max_files
LoopCondition == contents # <<>> /\ ~AtLimit(Len(pythonFiles))

InitWalk ==
    /\ NormIdle
    /\ IdxIdle
    /\ ChunkIdle
    /\ PipeIdle
    /\ \E opt \in SUBSET OptionalFiles : repoFiles = FixedFiles \cup opt
    /\ maxFiles \in 1..MaxFilesBound
    /\ wpc = "idle"
    /\ contents = <<>>
    /\ pythonFiles = <<>>
    /\ listReq = {}
    /\ listFail = {}
    /\ decodeReq = {}
    /\ decodeFail = {}
    /\ walkOut = [kind |-> "none"]

\* The outer handler: a GithubException that leaves the try block.
OuterError(status) ==
    IF status = 404 THEN "ValueError_RepositoryNotFound"
    ELSE IF status = 403 THEN "RuntimeError_RateLimit"
    ELSE "RuntimeError_GithubApi"

\* g.get_repo(f"{owner}/{repo}") succeeds.
GetRepoOk ==
    /\ wpc = "idle"
    /\ wpc' = "root"
    /\ UNCHANGED <<repoFiles, maxFiles, contents, pythonFiles, listReq, listFail,
                   decodeReq, decodeFail, walkOut, notWalk>>

\* g.get_repo raises GithubException.
GetRepoFails(status) ==
    /\ wpc = "idle"
    /\ wpc' = "raised"
    /\ walkOut' = [kind |-> "raised", error |-> OuterError(status)]
    /\ UNCHANGED <<repoFiles, maxFiles, contents, pythonFiles, listReq, listFail,
                   decodeReq, decodeFail, notWalk>>

\* contents = repository.get_contents("") succeeds.
ListRootOk ==
    /\ wpc = "root"
    /\ listReq' = listReq \cup {<<>>}
    /\ contents' = get_contents(<<>>)
    /\ wpc' = "loop"
    /\ UNCHANGED <<repoFiles, maxFiles, pythonFiles, listFail, decodeReq, decodeFail,
                   walkOut, notWalk>>

\* repository.get_contents("") raises GithubException: the outer handler ends the call.
ListRootFails(status) ==
    /\ wpc = "root"
    /\ listReq' = listReq \cup {<<>>}
    /\ listFail' = listFail \cup {[path |-> <<>>, status |-> status]}
    /\ wpc' = "raised"
    /\ walkOut' = [kind |-> "raised", error |-> OuterError(status)]
    /\ UNCHANGED <<repoFiles, maxFiles, contents, pythonFiles, decodeReq, decodeFail, notWalk>>

\* One iteration on a directory entry whose top path segment is excluded.
SkipDir ==
    /\ wpc = "loop" /\ LoopCondition
    /\ Head(contents).type = "dir"
    /\ Head(contents).path[1] \in EXCLUDED_DIRS
    /\ contents' = Tail(contents)
    /\ UNCHANGED <<repoFiles, maxFiles, wpc, pythonFiles, listReq, listFail, decodeReq,
                   decodeFail, walkOut, notWalk>>

\* One iteration on a directory entry: its listing is appended to the queue.
ExpandDir ==
    /\ wpc = "loop" /\ LoopCondition
    /\ Head(contents).type = "dir"
    /\ Head(contents).path[1] \notin EXCLUDED_DIRS
    /\ listReq' = listReq \cup {Head(contents).path}
    /\ contents' = Tail(contents) \o get_contents(Head(contents).path)
    /\ UNCHANGED <<repoFiles, maxFiles, wpc, pythonFiles, listFail, decodeReq, decodeFail,
                   walkOut, notWalk>>

\* Mutant of ExpandDirFails: the exception is not caught in the loop and reaches the
\* outer handler.
ExpandDirFailsAborts(status) ==
    /\ wpc = "loop" /\ LoopCondition
    /\ Head(contents).type = "dir"
    /\ Head(contents).path[1] \notin EXCLUDED_DIRS
    /\ listReq' = listReq \cup {Head(contents).path}
    /\ listFail' = listFail \cup {[path |-> Head(contents).path, status |-> status]}
    /\ wpc' = "raised"
    /\ walkOut' = [kind |-> "raised", error |-> OuterError(status)]
    /\ UNCHANGED <<repoFiles, maxFiles, contents, pythonFiles, decodeReq, decodeFail, notWalk>>

\* One iteration on a directory entry whose listing raises GithubException: logged.
ExpandDirFails(status) ==
    /\ wpc = "loop" /\ LoopCondition
    /\ Head(contents).type = "dir"
    /\ Head(contents).path[1] \notin EXCLUDED_DIRS
    /\ listReq' = listReq \cup {Head(contents).path}
    /\ listFail' = listFail \cup {[path |-> Head(contents).path, status |-> status]}
    /\ contents' = Tail(contents)
    /\ UNCHANGED <<repoFiles, maxFiles, wpc, pythonFiles, decodeReq, decodeFail, walkOut, notWalk>>

\* One iteration on a file entry that _should_skip_path rejects.
SkipFile ==
    /\ wpc = "loop" /\ LoopCondition
    /\ Head(contents).type # "dir"
    /\ should_skip_path(Head(contents).path)
    /\ contents' = Tail(contents)
    /\ UNCHANGED <<repoFiles, maxFiles, wpc, pythonFiles, listReq, listFail, decodeReq,
                   decodeFail, walkOut, notWalk>>

\* One iteration on a file entry: decoded and appended; break when the limit is reached.
FetchFile ==
    /\ wpc = "loop" /\ LoopCondition
    /\ Head(contents).type # "dir"
    /\ ~should_skip_path(Head(contents).path)
    /\ decodeReq' = decodeReq \cup {Head(contents).path}
    /\ pythonFiles' = Append(pythonFiles, Head(contents).path)
    /\ contents' = Tail(contents)
    /\ wpc' = IF AtLimit(Len(pythonFiles')) THEN "break" ELSE "loop"
    /\ UNCHANGED <<repoFiles, maxFiles, listReq, listFail, decodeFail, walkOut, notWalk>>

\* One iteration on a file entry whose content raises: logged, nothing appended.
FetchFileFails(kind) ==
    /\ wpc = "loop" /\ LoopCondition
    /\ Head(contents).type # "dir"
    /\ ~should_skip_path(Head(contents).path)
    /\ decodeReq' = decodeReq \cup {Head(contents).path}
    /\ decodeFail' = decodeFail \cup {[path |-> Head(contents).path, kind |-> kind]}
    /\ contents' = Tail(contents)
    /\ UNCHANGED <<repoFiles, maxFiles, wpc, pythonFiles, listReq, listFail, walkOut, notWalk>>

\* The loop ends (its condition is false, or the break was taken): return python_files.
WalkReturn ==
    /\ \/ wpc = "break"
       \/ wpc = "loop" /\ ~LoopCondition
    /\ wpc' = "done"
    /\ walkOut' = [kind |-> "returned", files |-> pythonFiles]
    /\ UNCHANGED <<repoFiles, maxFiles, contents, pythonFiles, listReq, listFail,
                   decodeReq, decodeFail, notWalk>>

NextWalk ==
    \/ GetRepoOk
    \/ \E st \in FailStatuses : GetRepoFails(st)
    \/ ListRootOk
    \/ \E st \in FailStatuses : ListRootFails(st)
    \/ SkipDir
    \/ ExpandDir
    \/ \E st \in FailStatuses : ExpandDirFails(st)
    \/ SkipFile
    \/ FetchFile
    \/ \E k \in DecodeFailKinds : FetchFileFails(k)
    \/ WalkReturn

SpecWalk == InitWalk /\ [][NextWalk]_vars

-----------------------------------------------------------------------------
(* The chunk extractor: parse_python_file and the loop of pull_and_chunk_repo *)

\* A file's content is a sequence of items: one item per statement line, and the
\* line terminator characters between them.  Names and paths are character sequences.
Item(kind, indent, name) == [kind |-> kind, indent |-> indent, name |-> name]

LF == Item("LF", 0, <<>>)
CR == Item("CR", 0, <<>>)

\* The line terminators a file may use: "\n", "\r\n" and "\r".
Terminators == {<<LF>>, <<CR, LF>>, <<CR>>}

\* The headers of the compound statements, and the statement lines the parser
\* accepts: headers, "pass", and "deep", an assignment whose right side is an
\* expression of several thousand operands.
HeaderKinds == {"class", "def", "async def"}
StatementKinds == HeaderKinds \cup {"pass", "deep"}

\* The text of a file: every line followed by the terminator.
RECURSIVE JoinLines(_, _)
JoinLines(lines, term) ==
    IF lines = <<>> THEN <<>>
    ELSE <<Head(lines)>> \o term \o JoinLines(Tail(lines), term)

\* content.split('\n')
RECURSIVE SplitOn(_, _)
SplitOn(content, cur) ==
    IF content = <<>> THEN <<cur>>
    ELSE IF Head(content) = LF THEN <<cur>> \o SplitOn(Tail(content), <<>>)
    ELSE SplitOn(Tail(content), Append(cur, Head(content)))

split_lf(content) == SplitOn(content, <<>>)

\* '\n'.join(lines)
RECURSIVE join_lf(_)
join_lf(lines) ==
    IF lines = <<>> THEN <<>>
    ELSE IF Len(lines) = 1 THEN Head(lines)
    ELSE Head(lines) \o <<LF>> \o join_lf(Tail(lines))

\* lines[start:end], for 0 <= start
PySlice(lines, start, end) ==
    SubSeq(lines, start + 1, IF end < Len(lines) THEN end ELSE Len(lines))

\* The lines as the parser counts them: "\n", "\r\n" and "\r" each end a line.
RECURSIVE SourceLines(_, _)
SourceLines(content, cur) ==
    IF content = <<>> THEN (IF cur = <<>> THEN <<>> ELSE <<cur>>)
    ELSE IF Head(content) = CR /\ Len(content) >= 2 /\ content[2] = LF
    THEN <<cur>> \o SourceLines(SubSeq(content, 3, Len(content)), <<>>)
    ELSE IF Head(content) \in {CR, LF}
    THEN <<cur>> \o SourceLines(Tail(content), <<>>)
    ELSE SourceLines(Tail(content), Append(cur, Head(content)))

\* The grammar: every line is one statement, the line after a header is indented by
\* one level, and no other line is indented deeper than the line before it.
WellFormed(lines) ==
    /\ \A k \in 1..Len(lines) : Len(lines[k]) = 1 /\ lines[k][1].kind \in StatementKinds
    /\ Len(lines) > 0 => lines[1][1].indent = 0 /\ lines[Len(lines)][1].kind \notin HeaderKinds
    /\ \A k \in 2..Len(lines) :
           IF lines[k - 1][1].kind \in HeaderKinds
           THEN lines[k][1].indent = lines[k - 1][1].indent + 1
           ELSE lines[k][1].indent <= lines[k - 1][1].indent

\* ast.parse(content): the statements of the tree, by line number, or the exception.
\* A null byte is refused before parsing (ValueError, or SyntaxError from Python
\* 3.11.4 on); an expression nested too deep parses and then raises RecursionError
\* when the tree is built.
ast_parse(content) ==
    LET lines == SourceLines(content, <<>>)
    IN  IF \E k \in 1..Len(content) : content[k].kind = "nul"
        THEN [ok |-> FALSE, error |-> nulError]
        ELSE IF ~WellFormed(lines)
        THEN [ok |-> FALSE, error |-> "SyntaxError"]
        ELSE IF \E k \in 1..Len(lines) : lines[k][1].kind = "deep"
        THEN [ok |-> FALSE, error |-> "RecursionError"]
        ELSE [ok |-> TRUE, tree |-> [k \in 1..Len(lines) |-> lines[k][1]]]

\* The nodes of a tree are its statements, named by their line; 0 is the Module node.
IndentOf(tree, n) == IF n = 0 THEN 0 - 1 ELSE tree[n].indent

\* node.lineno and node.end_lineno
lineno(tree, n) == n
end_lineno(tree, n) ==
    CHOOSE j \in n..Len(tree) :
        /\ \A k \in (n + 1)..j : tree[k].indent > IndentOf(tree, n)
        /\ j < Len(tree) => tree[j + 1].indent <= IndentOf(tree, n)

\* ast.iter_child_nodes(node): the statements of the node's body, in source order.
Children(tree, n) ==
    SelectSeq([k \in 1..Len(tree) |-> k],
              LAMBDA k : /\ n < k /\ k <= end_lineno(tree, n)
                         /\ tree[k].indent = IndentOf(tree, n) + 1)

\* ast.walk(tree): breadth first, from a queue.
RECURSIVE WalkQueue(_, _)
WalkQueue(tree, todoNodes) ==
    IF todoNodes = <<>> THEN <<>>
    ELSE <<Head(todoNodes)>> \o WalkQueue(tree, Tail(todoNodes) \o Children(tree, Head(todoNodes)))

ast_walk(tree) == WalkQueue(tree, <<0>>)

\* isinstance(node, ast.FunctionDef) / isinstance(node, ast.ClassDef): the chunk type,
\* or "" for a node of any other type.
ChunkType(tree, n) ==
    IF n = 0 THEN ""
    ELSE IF tree[n].kind = "def" THEN "function"
    ELSE IF tree[n].kind = "class" THEN "class"
    ELSE ""

\* chunk_text: the lines [lineno - 1 : end_lineno] of content.split('\n'), joined.
ChunkText(content, tree, n) ==
    join_lf(PySlice(split_lf(content), lineno(tree, n) - 1, end_lineno(tree, n)))

\* if chunk_text and chunk_name
Emits(content, tree, n) ==
    /\ ChunkType(tree, n) # ""
    /\ ChunkText(content, tree, n) # <<>>
    /\ tree[n].name # <<>>

\* Mutant of ChunkOfNode: the id is made unique with the line of the definition.
ChunkOfNodeWithLine(content, path, repoId, tree, n) ==
    [id |-> repoId \o <<":">> \o path \o <<":">> \o tree[n].name \o <<":", ToString(n)>>,
     text |-> [file |-> path, type |-> ChunkType(tree, n), name |-> tree[n].name,
               body |-> ChunkText(content, tree, n)]]

\* The chunk of a node: id "{repo_id}:{file_path}:{chunk_name}", and the text, a
\* header naming the file and the symbol followed by chunk_text.
ChunkOfNode(content, path, repoId, tree, n) ==
    [id |-> repoId \o <<":">> \o path \o <<":">> \o tree[n].name,
     text |-> [file |-> path, type |-> ChunkType(tree, n), name |-> tree[n].name,
               body |-> ChunkText(content, tree, n)]]

RECURSIVE ChunksOfNodes(_, _, _, _, _)
ChunksOfNodes(content, path, repoId, tree, nodes) ==
    IF nodes = <<>> THEN <<>>
    ELSE (IF Emits(content, tree, Head(nodes))
          THEN <<ChunkOfNode(content, path, repoId, tree, Head(nodes))>>
          ELSE <<>>) \o ChunksOfNodes(content, path, repoId, tree, Tail(nodes))

\* parse_python_file: only SyntaxError is caught; any other exception of ast.parse
\* leaves the function.
parse_python_file(content, path, repoId) ==
    LET p == ast_parse(content)
    IN  IF p.ok
        THEN [kind |-> "returned",
              chunks |-> ChunksOfNodes(content, path, repoId, p.tree, ast_walk(p.tree))]
        ELSE IF p.error = "SyntaxError"
        THEN [kind |-> "returned", chunks |-> <<>>]
        ELSE [kind |-> "raised", error |-> p.error]

\* The statement lines of the modelled files.
Class(indent, name) == Item("class", indent, <<name>>)
Def(indent, name) == Item("def", indent, <<name>>)
AsyncDef(indent, name) == Item("async def", indent, <<name>>)
Pass(indent) == Item("pass", indent, <<>>)

\* The modelled files, as statement lines.
ClassWithMethod == <<Class(0, "A"), Def(1, "f"), Pass(2)>>
FuncInFunc == <<Def(0, "g"), Def(1, "h"), Pass(2)>>
ClassThenFunc == <<Class(0, "A"), Def(1, "f"), Pass(2), Def(0, "g"), Pass(1)>>
AsyncInClass == <<Class(0, "A"), AsyncDef(1, "k"), Pass(2)>>
SameNameTwice == <<Def(0, "f"), Pass(1), Def(0, "f"), Pass(1)>>
NoDefinition == <<Pass(0)>>
EmptyFile == <<>>
BrokenSyntax == <<Def(0, "f"), Item("bad", 1, <<>>)>>
BrokenIndent == <<Def(0, "f"), Pass(0)>>
DeepExpression == <<Def(0, "f"), Pass(1), Item("deep", 0, <<>>)>>
NullByte == <<Def(0, "f"), Pass(1), Item("nul", 0, <<>>)>>

Programs ==
    {ClassWithMethod, FuncInFunc, ClassThenFunc, AsyncInClass, SameNameTwice, NoDefinition,
     EmptyFile, BrokenSyntax, BrokenIndent, DeepExpression, NullByte}

\* The contents fetch_python_files may hand over: each file under each terminator.
Contents == {JoinLines(p, t) : p \in Programs, t \in Terminators}

\* The paths of the fetched files, in the order of the walk, and the repository id.
FetchedPaths == << <<"a", ".", "p", "y">>, <<"m", ".", "p", "y">>, <<"z", ".", "p", "y">> >>
RepoId == <<"a", "/", "b">>

InitChunk ==
    /\ NormIdle
    /\ WalkIdle
    /\ IdxIdle
    /\ PipeIdle
    /\ nulError \in {"SyntaxError", "ValueError"}
    /\ \E n \in 0..MaxFetched : \E cs \in [1..n -> Contents] :
           fetched = [k \in 1..n |-> [path |-> FetchedPaths[k], content |-> cs[k]]]
    /\ cpc = "idle"
    /\ fileNo = 0
    /\ allChunks = <<>>
    /\ parseLog = <<>>
    /\ chunkOut = [kind |-> "none"]

\* pull_and_chunk_repo after fetch_python_files returned: an empty list ends the call.
PullReturned ==
    /\ cpc = "idle"
    /\ IF fetched = <<>>
       THEN cpc' = "done" /\ chunkOut' = [kind |-> "returned", chunks |-> <<>>]
       ELSE cpc' = "loop" /\ UNCHANGED chunkOut
    /\ UNCHANGED <<nulError, fetched, fileNo, allChunks, parseLog, notChunk>>

\* The call of parse_python_file on the next file of the list.
NextParse == parse_python_file(fetched[fileNo + 1].content, fetched[fileNo + 1].path, RepoId)

LogParse(out) ==
    parseLog' = Append(parseLog, [path |-> fetched[fileNo + 1].path,
                                  content |-> fetched[fileNo + 1].content, out |-> out])

\* One iteration of the loop: parse_python_file returns, its chunks are appended.
ChunkFile ==
    /\ cpc = "loop" /\ fileNo < Len(fetched)
    /\ NextParse.kind = "returned"
    /\ LogParse(NextParse)
    /\ allChunks' = allChunks \o NextParse.chunks
    /\ fileNo' = fileNo + 1
    /\ UNCHANGED <<nulError, fetched, cpc, chunkOut, notChunk>>

\* One iteration of the loop: parse_python_file raises, and nothing in
\* pull_and_chunk_repo catches it.
ChunkFileRaises ==
    /\ cpc = "loop" /\ fileNo < Len(fetched)
    /\ NextParse.kind = "raised"
    /\ LogParse(NextParse)
    /\ cpc' = "raised"
    /\ chunkOut' = [kind |-> "raised", error |-> NextParse.error]
    /\ UNCHANGED <<nulError, fetched, fileNo, allChunks, notChunk>>

\* The loop is over: return all_chunks.
ChunkReturn ==
    /\ cpc = "loop" /\ fileNo = Len(fetched)
    /\ cpc' = "done"
    /\ chunkOut' = [kind |-> "returned", chunks |-> allChunks]
    /\ UNCHANGED <<nulError, fetched, fileNo, allChunks, parseLog, notChunk>>

NextChunk ==
    \/ PullReturned
    \/ ChunkFile
    \/ ChunkFileRaises
    \/ ChunkReturn

SpecChunk == InitChunk /\ [][NextChunk]_vars

-----------------------------------------------------------------------------
(* The index lifecycle manager and the search accessor *)

\* 'github.com' in identifier / '/' in identifier
Contains(str, sub) ==
    \E k \in 1..(Len(str) - Len(sub) + 1) : SubSeq(str, k, k + Len(sub) - 1) = sub

GithubCom == <<"g", "i", "t", "h", "u", "b", ".", "c", "o", "m">>

\* Mutant of normalize_index_identifier: every input is parsed as a reference, and an
\* input that does not parse is turned into the empty name.
normalize_always_parses(identifier) ==
    IF generate_index_name(identifier).ok THEN generate_index_name(identifier).ident ELSE <<>>

\* _normalize_index_identifier
normalize_index_identifier(identifier) ==
    IF Contains(identifier, GithubCom) \/ Contains(identifier, <<"/">>)
    THEN (IF generate_index_name(identifier).ok
          THEN generate_index_name(identifier).ident
          ELSE identifier)
    ELSE identifier

\* The references the callers pass: "a/b", "https://github.com/a/B.git",
\* "https://github.com/Foo/Bar.git/", "HTTPS://GitHub.com/Foo/Bar.git/" and "a-b/c".
RefAB == FormRef("bare", <<"a">>, <<"b">>)
RefABC == FormRef("bare", <<"a", "-", "b">>, <<"c">>)
RefABGit == FormRef("url_git", <<"a">>, <<"B">>)
CallerRefs == {RefAB, RefABGit, RefLowerHost, RefMixedCase, RefABC}

\* The reference of another repository a caller indexes after the run's repository:
\* "a/b-c" after "a-b/c".
OtherRef == FormRef("bare", <<"a">>, <<"b", "-", "c">>)

\* "a-b"
NameAB == <<"a", "-", "b">>

\* The chunk list of a repository: k chunks whose ids start with the repository id.
ChunksOf(repoId, k) == [i \in 1..k |-> [repo |-> repoId, n |-> i]]

RepoIdOf(parsed) == parsed.owner \o <<"/">> \o parsed.repo

\* top_k arguments, and the sizes of the index service's query responses.
TopKs == {1, 3}
DocCounts == {0, 2, 10}

\* The service's response documents, best first.
DocsOf(n) == [i \in 1..n |-> i]

\* Mutant of Truncate: the response is returned whole.
TruncateNone(docs, k) == docs

\* results.docs[:top_k]
Truncate(docs, k) == SubSeq(docs, 1, IF Len(docs) < k THEN Len(docs) ELSE k)

\* What client.list_indexes() yields: index names, or IndexInfo objects with a name.
Listing ==
    IF listingShape = "str"
    THEN {[type |-> "str", value |-> x.name] : x \in indexes}
    ELSE {[type |-> "IndexInfo", name |-> x.name] : x \in indexes}

\* index_name in existing_indexes: Python compares the string with each element, and
\* a string equals no object of another type.
PyIn(name, listing) == \E e \in listing : e.type = "str" /\ e.value = name

\* What the callers of a run do: one caller repeating or chaining operations, or two
\* callers at the same time.
Workloads ==
    {[c1 |-> <<"create_moss_index", "create_moss_index">>, c2 |-> <<>>],
     [c1 |-> <<"index_github_repo", "index_github_repo">>, c2 |-> <<>>],
     [c1 |-> <<"index_github_repo", "search_code", "search_code">>, c2 |-> <<>>],
     [c1 |-> <<"search_code">>, c2 |-> <<>>],
     [c1 |-> <<"create_moss_index", "index_github_repo">>, c2 |-> <<>>],
     [c1 |-> <<"index_github_repo", "index_other_repo">>, c2 |-> <<>>],
     [c1 |-> <<"search_github_repo">>, c2 |-> <<>>],
     [c1 |-> <<"create_moss_index">>, c2 |-> <<"create_moss_index">>],
     [c1 |-> <<"index_github_repo">>, c2 |-> <<"index_github_repo">>],
     [c1 |-> <<"index_github_repo">>, c2 |-> <<"search_code">>]}

IndexExists(name) == \E x \in indexes : x.name = name

InitIdx ==
    /\ NormIdle
    /\ WalkIdle
    /\ ChunkIdle
    /\ PipeIdle
    /\ haveCredentials \in BOOLEAN
    /\ listingShape \in {"str", "IndexInfo"}
    /\ repoRef \in CallerRefs
    /\ repoChunks \in 0..MaxChunks
    /\ skipFlag \in BOOLEAN
    /\ autoLoad \in BOOLEAN
    /\ topK \in TopKs
    /\ indexes = {}
    /\ svcLog = <<>>
    /\ todo \in Workloads
    /\ ops = <<>>
    /\ frame = [c \in Callers |-> IdleFrame]

NewOp(c, kind, arg) == [caller |-> c, kind |-> kind, arg |-> arg, out |-> [kind |-> "running"]]
Raised(op, error) == [op EXCEPT !.out = [kind |-> "raised", error |-> error]]
Returned(op, value) == [op EXCEPT !.out = [kind |-> "returned", value |-> value]]

\* The operation of caller c ends: its outcome is recorded and the caller is idle.
Finish(c, out) ==
    /\ ops' = [ops EXCEPT ![frame[c].id].out = out]
    /\ frame' = [frame EXCEPT ![c] = IdleFrame]

LogCall(c, call, name, ok) ==
    svcLog' = Append(svcLog, [op |-> frame[c].id, call |-> call, name |-> name, ok |-> ok])

\* The calls of one kind that operation id sent to the index service, in order.
CallsOf(id, call) == SelectSeq(svcLog, LAMBDA e : e.op = id /\ e.call = call)

\* Caller c is idle and calls the next operation of its list, which is of this kind.
CanStart(c, kind) ==
    /\ frame[c].pc = "idle"
    /\ todo[c] # <<>>
    /\ Head(todo[c]) = kind
    /\ todo' = [todo EXCEPT ![c] = Tail(todo[c])]

\* Mutant of EnterCreate: the chunk list is not tested before the client is used.
EnterCreateUnchecked(c, kind, arg, name, chunks) ==
    IF ~haveCredentials
    THEN /\ ops' = Append(ops, Raised(NewOp(c, kind, arg), "ValueError_Credentials"))
         /\ UNCHANGED frame
    ELSE /\ ops' = Append(ops, NewOp(c, kind, arg))
         /\ frame' = [frame EXCEPT ![c] =
                [pc |-> IF skipFlag THEN "list" ELSE "create", id |-> Len(ops) + 1,
                 kind |-> kind, name |-> name, chunks |-> chunks]]

\* create_moss_index up to its first call of the index service (lines 121-130).
EnterCreate(c, kind, arg, name, chunks) ==
    IF chunks = <<>>
    THEN /\ ops' = Append(ops, Raised(NewOp(c, kind, arg), "ValueError_EmptyChunks"))
         /\ UNCHANGED frame
    ELSE IF ~haveCredentials
    THEN /\ ops' = Append(ops, Raised(NewOp(c, kind, arg), "ValueError_Credentials"))
         /\ UNCHANGED frame
    ELSE /\ ops' = Append(ops, NewOp(c, kind, arg))
         /\ frame' = [frame EXCEPT ![c] =
                [pc |-> IF skipFlag THEN "list" ELSE "create", id |-> Len(ops) + 1,
                 kind |-> kind, name |-> name, chunks |-> chunks]]

\* The index name a caller passes to create_moss_index for the run's repository.
DirectName == IF generate_index_name(repoRef).ok THEN generate_index_name(repoRef).ident ELSE NameAB

\* A caller calls create_moss_index(chunks, name, skip_if_exists = skipFlag).
StartCreate(c) ==
    /\ CanStart(c, "create_moss_index")
    /\ EnterCreate(c, "create_moss_index", DirectName, DirectName, ChunksOf(RefAB, repoChunks))
    /\ UNCHANGED <<runParams, indexes, svcLog, notIdx>>

\* A caller calls index_github_repo(url, skip_if_exists = skipFlag), and
\* pull_and_chunk_repo raises (repository not found, rate limit, API error).
StartIndexRepoPullFails(c) ==
    /\ CanStart(c, "index_github_repo")
    /\ generate_index_name(repoRef).ok
    /\ ops' = Append(ops, Raised(NewOp(c, "index_github_repo", repoRef), "PullFailed"))
    /\ UNCHANGED <<runParams, indexes, svcLog, frame, notIdx>>

\* index_github_repo(ref, ...) for an operation of this kind, up to the first call of
\* the index service: pull_and_chunk_repo returns the repository's chunks.
IndexRepoCall(c, kind, ref) ==
    IF ~generate_index_name(ref).ok
    THEN /\ ops' = Append(ops, Raised(NewOp(c, kind, ref), "ValueError_InvalidUrl"))
         /\ UNCHANGED frame
    ELSE IF repoChunks = 0
    THEN /\ ops' = Append(ops, Raised(NewOp(c, kind, ref), "ValueError_NoChunks"))
         /\ UNCHANGED frame
    ELSE EnterCreate(c, kind, ref, generate_index_name(ref).ident,
                     ChunksOf(RepoIdOf(parse_github_url(ref)), repoChunks))

\* A caller calls index_github_repo(url, skip_if_exists = skipFlag), and
\* pull_and_chunk_repo returns the repository's chunks.
StartIndexRepo(c) ==
    /\ CanStart(c, "index_github_repo")
    /\ IndexRepoCall(c, "index_github_repo", repoRef)
    /\ UNCHANGED <<runParams, indexes, svcLog, notIdx>>

\* A caller calls index_github_repo for the other repository, "a/b-c", in a run
\* whose repository is "a-b/c".
StartIndexOtherRepo(c) ==
    /\ CanStart(c, "index_other_repo")
    /\ repoRef = RefABC
    /\ IndexRepoCall(c, "index_github_repo", OtherRef)
    /\ UNCHANGED <<runParams, indexes, svcLog, notIdx>>

\* A caller calls search_github_repo(url, query, top_k = topK); its first step is
\* index_github_repo(url, skip_if_exists = True), so it belongs to the runs whose
\* skip_if_exists is true.
StartSearchRepo(c) ==
    /\ CanStart(c, "search_github_repo")
    /\ skipFlag
    /\ IndexRepoCall(c, "search_github_repo", repoRef)
    /\ UNCHANGED <<runParams, indexes, svcLog, notIdx>>

\* The parameters of search_code, and the keywords search_github_repo calls it with.
SearchCodeParameters == {"index_identifier", "query", "top_k", "auto_load"}
SearchRepoKeywords == {"index_name", "query", "top_k"}

\* Python binds a call's keywords to the parameters of the function, and raises
\* TypeError for a keyword that names no parameter.
BindsTo(keywords, parameters) == keywords \subseteq parameters

\* Mutant of ListIndexesOk: the listing waits while another caller is between its
\* listing and its creation call.
ListIndexesOkLocked(c) ==
    /\ frame[c].pc = "list"
    /\ \A d \in Callers \ {c} : frame[d].pc # "create"
    /\ LogCall(c, "list_indexes", <<>>, TRUE)
    /\ IF PyIn(frame[c].name, Listing)
       THEN IF frame[c].kind = "create_moss_index"
            THEN Finish(c, [kind |-> "returned", value |-> frame[c].name])
            ELSE /\ frame' = [frame EXCEPT ![c].pc = "load"]
                 /\ UNCHANGED ops
       ELSE /\ frame' = [frame EXCEPT ![c].pc = "create"]
            /\ UNCHANGED ops
    /\ UNCHANGED <<runParams, indexes, todo, notIdx>>

\* existing_indexes = await client.list_indexes() answers.
ListIndexesOk(c) ==
    /\ frame[c].pc = "list"
    /\ LogCall(c, "list_indexes", <<>>, TRUE)
    /\ IF PyIn(frame[c].name, Listing)
       THEN IF frame[c].kind = "create_moss_index"
            THEN Finish(c, [kind |-> "returned", value |-> frame[c].name])
            ELSE /\ frame' = [frame EXCEPT ![c].pc = "load"]
                 /\ UNCHANGED ops
       ELSE /\ frame' = [frame EXCEPT ![c].pc = "create"]
            /\ UNCHANGED ops
    /\ UNCHANGED <<runParams, indexes, todo, notIdx>>

\* Mutant of ListIndexesFails: the exception reaches the outer handler.
ListIndexesFailsPropagates(c) ==
    /\ frame[c].pc = "list"
    /\ LogCall(c, "list_indexes", <<>>, FALSE)
    /\ Finish(c, [kind |-> "raised", error |-> "RuntimeError_IndexCreation"])
    /\ UNCHANGED <<runParams, indexes, todo, notIdx>>

\* client.list_indexes() raises: logged at debug level, creation goes on.
ListIndexesFails(c) ==
    /\ frame[c].pc = "list"
    /\ LogCall(c, "list_indexes", <<>>, FALSE)
    /\ frame' = [frame EXCEPT ![c].pc = "create"]
    /\ UNCHANGED <<runParams, indexes, todo, ops, notIdx>>

\* await client.create_index(...) answers: the service holds the index with these documents.
CreateIndexOk(c) ==
    /\ frame[c].pc = "create"
    /\ LogCall(c, "create_index", frame[c].name, TRUE)
    /\ indexes' = {x \in indexes : x.name # frame[c].name}
                  \cup {[name |-> frame[c].name, state |-> "created", docs |-> frame[c].chunks]}
    /\ IF frame[c].kind = "create_moss_index"
       THEN Finish(c, [kind |-> "returned", value |-> frame[c].name])
       ELSE /\ frame' = [frame EXCEPT ![c].pc = "load"]
            /\ UNCHANGED ops
    /\ UNCHANGED <<runParams, todo, notIdx>>

\* Mutant of CreateIndexFails: the creation call is tried again.
CreateIndexFailsRetries(c) ==
    /\ frame[c].pc = "create"
    /\ Len(CallsOf(frame[c].id, "create_index")) < 2
    /\ LogCall(c, "create_index", frame[c].name, FALSE)
    /\ UNCHANGED <<runParams, indexes, todo, ops, frame, notIdx>>

\* client.create_index raises: wrapped in RuntimeError, the operation ends.
CreateIndexFails(c) ==
    /\ frame[c].pc = "create"
    /\ LogCall(c, "create_index", frame[c].name, FALSE)
    /\ Finish(c, [kind |-> "raised", error |-> "RuntimeError_IndexCreation"])
    /\ UNCHANGED <<runParams, indexes, todo, notIdx>>

\* load_moss_index in index_github_repo: client.load_index answers.
LoadIndexOk(c) ==
    /\ frame[c].pc = "load"
    /\ IndexExists(frame[c].name)
    /\ LogCall(c, "load_index", frame[c].name, TRUE)
    /\ indexes' = {IF x.name = frame[c].name THEN [x EXCEPT !.state = "loaded"] ELSE x : x \in indexes}
    /\ IF frame[c].kind # "search_github_repo"
       THEN Finish(c, [kind |-> "returned", value |-> frame[c].name])
       ELSE IF BindsTo(SearchRepoKeywords, SearchCodeParameters)
       THEN /\ frame' = [frame EXCEPT ![c].pc = "warm"]
            /\ UNCHANGED ops
       ELSE Finish(c, [kind |-> "raised", error |-> "TypeError_UnexpectedKeyword"])
    /\ UNCHANGED <<runParams, todo, notIdx>>

\* Mutant of LoadIndexFails: the index is deleted before the error is raised.
LoadIndexFailsCleansUp(c) ==
    /\ frame[c].pc = "load"
    /\ svcLog' = svcLog \o
          <<[op |-> frame[c].id, call |-> "load_index", name |-> frame[c].name, ok |-> FALSE],
            [op |-> frame[c].id, call |-> "delete_index", name |-> frame[c].name, ok |-> TRUE]>>
    /\ indexes' = {x \in indexes : x.name # frame[c].name}
    /\ Finish(c, [kind |-> "raised", error |-> "RuntimeError_IndexLoad"])
    /\ UNCHANGED <<runParams, todo, notIdx>>

\* Mutant of LoadIndexFails: the failure is logged and the identifier returned.
LoadIndexFailsIgnored(c) ==
    /\ frame[c].pc = "load"
    /\ LogCall(c, "load_index", frame[c].name, FALSE)
    /\ Finish(c, [kind |-> "returned", value |-> frame[c].name])
    /\ UNCHANGED <<runParams, indexes, todo, notIdx>>

\* load_moss_index in index_github_repo: client.load_index raises.
LoadIndexFails(c) ==
    /\ frame[c].pc = "load"
    /\ LogCall(c, "load_index", frame[c].name, FALSE)
    /\ Finish(c, [kind |-> "raised", error |-> "RuntimeError_IndexLoad"])
    /\ UNCHANGED <<runParams, indexes, todo, notIdx>>

\* What the callers pass to search_code: the reference, or the index name that
\* index_github_repo returns for it.
SearchInputs == {repoRef} \cup
    (IF generate_index_name(repoRef).ok THEN {generate_index_name(repoRef).ident} ELSE {})

\* A caller calls search_code(identifier, query, top_k = topK, auto_load = autoLoad).
StartSearch(c, identifier) ==
    /\ CanStart(c, "search_code")
    /\ IF ~haveCredentials
       THEN /\ ops' = Append(ops, Raised(NewOp(c, "search_code", identifier), "ValueError_Credentials"))
            /\ UNCHANGED frame
       ELSE /\ ops' = Append(ops, NewOp(c, "search_code", identifier))
            /\ frame' = [frame EXCEPT ![c] =
                   [pc |-> IF autoLoad THEN "warm" ELSE "query", id |-> Len(ops) + 1,
                    kind |-> "search_code", name |-> normalize_index_identifier(identifier)]]
    /\ UNCHANGED <<runParams, indexes, svcLog, notIdx>>

\* search_code: the best-effort client.load_index answers.
WarmLoadOk(c) ==
    /\ frame[c].pc = "warm"
    /\ IndexExists(frame[c].name)
    /\ LogCall(c, "load_index", frame[c].name, TRUE)
    /\ indexes' = {IF x.name = frame[c].name THEN [x EXCEPT !.state = "loaded"] ELSE x : x \in indexes}
    /\ frame' = [frame EXCEPT ![c].pc = "query"]
    /\ UNCHANGED <<runParams, todo, ops, notIdx>>

\* Mutant of WarmLoadFails: the failure reaches the outer handler of search_code.
WarmLoadFailsPropagates(c) ==
    /\ frame[c].pc = "warm"
    /\ LogCall(c, "load_index", frame[c].name, FALSE)
    /\ Finish(c, [kind |-> "raised", error |-> "RuntimeError_Search"])
    /\ UNCHANGED <<runParams, indexes, todo, notIdx>>

\* search_code: the best-effort client.load_index raises; the failure is ignored.
WarmLoadFails(c) ==
    /\ frame[c].pc = "warm"
    /\ LogCall(c, "load_index", frame[c].name, FALSE)
    /\ frame' = [frame EXCEPT ![c].pc = "query"]
    /\ UNCHANGED <<runParams, indexes, todo, ops, notIdx>>

\* search_code: client.query answers with n documents (none while the index is not
\* loaded); the first top_k are returned.
QueryOk(c, n) ==
    /\ frame[c].pc = "query"
    /\ \E x \in indexes : x.name = frame[c].name /\ (x.state = "loaded" \/ n = 0)
    /\ svcLog' = Append(svcLog, [op |-> frame[c].id, call |-> "query", name |-> frame[c].name,
                                 ok |-> TRUE, docs |-> DocsOf(n)])
    /\ Finish(c, [kind |-> "returned", value |-> Truncate(DocsOf(n), topK)])
    /\ UNCHANGED <<runParams, indexes, todo, notIdx>>

\* search_code: client.query raises: wrapped in RuntimeError.
QueryFails(c) ==
    /\ frame[c].pc = "query"
    /\ LogCall(c, "query", frame[c].name, FALSE)
    /\ Finish(c, [kind |-> "raised", error |-> "RuntimeError_Search"])
    /\ UNCHANGED <<runParams, indexes, todo, notIdx>>

NextIdx ==
    \/ \E c \in Callers : StartCreate(c)
    \/ \E c \in Callers : StartIndexRepo(c)
    \/ \E c \in Callers : StartIndexOtherRepo(c)
    \/ \E c \in Callers : StartSearchRepo(c)
    \/ \E c \in Callers : StartIndexRepoPullFails(c)
    \/ \E c \in Callers : ListIndexesOk(c)
    \/ \E c \in Callers : ListIndexesFails(c)
    \/ \E c \in Callers : CreateIndexOk(c)
    \/ \E c \in Callers : CreateIndexFails(c)
    \/ \E c \in Callers : LoadIndexOk(c)
    \/ \E c \in Callers : LoadIndexFails(c)
    \/ \E c \in Callers, id \in SearchInputs : StartSearch(c, id)
    \/ \E c \in Callers : WarmLoadOk(c)
    \/ \E c \in Callers : WarmLoadFails(c)
    \/ \E c \in Callers, n \in DocCounts : QueryOk(c, n)
    \/ \E c \in Callers : QueryFails(c)

SpecIdx == InitIdx /\ [][NextIdx]_vars

-----------------------------------------------------------------------------
(* The analysis pipeline: run_ai_pipeline, analyze_api_tests and the issue filer *)

\* str.endswith
EndsWith(s, suffix) ==
    Len(s) >= Len(suffix) /\ SubSeq(s, Len(s) - Len(suffix) + 1, Len(s)) = suffix

\* s.split(sep, 1): the parts before and after the first occurrence of sep in s.
FirstIndex(s, sep) ==
    CHOOSE k \in 1..Len(s) :
        /\ SubSeq(s, k, k + Len(sep) - 1) = sep
        /\ \A j \in 1..(k - 1) : SubSeq(s, j, j + Len(sep) - 1) # sep
BeforeFirst(s, sep) == SubSeq(s, 1, FirstIndex(s, sep) - 1)
AfterFirst(s, sep) == SubSeq(s, FirstIndex(s, sep) + Len(sep), Len(s))

\* s.split(sep)
RECURSIVE SplitAll(_, _)
SplitAll(s, sep) ==
    IF Contains(s, sep)
    THEN <<BeforeFirst(s, sep)>> \o SplitAll(AfterFirst(s, sep), sep)
    ELSE <<s>>

NoRepo == [owner |-> <<>>, repo |-> <<>>]

\* _parse_github_repo, after the empty test, the strip and the removal of ".git".
ParseRepoCleaned(s) ==
    LET noScheme == IF Contains(s, <<":", "/", "/">>) THEN AfterFirst(s, <<":", "/", "/">>) ELSE s
        noHost == IF Contains(noScheme, HostMarker) THEN AfterFirst(noScheme, HostMarker)
                  ELSE noScheme
        rest == IF Contains(s, GithubCom) THEN noHost ELSE s
    IN  IF Contains(s, GithubCom) /\ Len(SplitAll(rest, <<"/">>)) >= 2
        THEN [owner |-> SplitAll(rest, <<"/">>)[1], repo |-> SplitAll(rest, <<"/">>)[2]]
        ELSE IF Contains(rest, <<"/">>)
        THEN [owner |-> BeforeFirst(rest, <<"/">>), repo |-> AfterFirst(rest, <<"/">>)]
        ELSE NoRepo

\* _parse_github_repo: (owner, repo), or (None, None), written with empty strings.
parse_github_repo(repoString) ==
    IF repoString = <<>> THEN NoRepo
    ELSE IF EndsWith(Strip(repoString), <<".", "g", "i", "t">>)
    THEN ParseRepoCleaned(SubSeq(Strip(repoString), 1, Len(Strip(repoString)) - 4))
    ELSE ParseRepoCleaned(Strip(repoString))

\* The "repo" field the analysis model writes in an issue: the placeholder of the
\* prompt "owner/repo", nothing, or a word that is no repository.
RepoPlaceholder == <<"o", "/", "r">>
IssueRepos == {RepoPlaceholder, <<>>, <<"r">>}

\* The target_repo arguments: None, "a/b", "https://github.com/Foo/Bar.git/".
TargetRepos == {<<>>, RefAB, RefLowerHost}

\* The issues of the model's answer, as _parse_issues_from_text returns them.
IssueLists ==
    UNION {{[k \in 1..n |-> [title |-> k, repo |-> rs[k]]] : rs \in [1..n -> IssueRepos]} :
           n \in 0..MaxIssues}

InitPipe ==
    /\ NormIdle
    /\ WalkIdle
    /\ IdxIdle
    /\ ChunkIdle
    /\ createIssues \in BOOLEAN
    /\ targetRepo \in TargetRepos
    /\ mcpUrlSet \in BOOLEAN
    /\ modelIssues \in IssueLists
    /\ ppc = "idle"
    /\ issues = <<>>
    /\ issueNo = 0
    /\ issueCalls = <<>>
    /\ issueResults = <<>>
    /\ pipeOut = [kind |-> "none"]

pipeParams == <<createIssues, targetRepo, mcpUrlSet, modelIssues>>

\* target_repo=target_repo if create_github_issues else None
TargetArgument == IF createIssues THEN targetRepo ELSE <<>>

\* if target_repo: for issue in issues: issue["repo"] = target_repo
WithTarget(list, target) ==
    IF target # <<>> THEN [k \in 1..Len(list) |-> [list[k] EXCEPT !.repo = target]] ELSE list

\* run_ai_pipeline calls analyze_api_tests, whose model call answers: the issues are
\* parsed, the target repository is set on them, and the issue filer is used when
\* COMPOSIO_MCP_URL is set and there are issues.
Analyze ==
    /\ ppc = "idle"
    /\ issues' = WithTarget(modelIssues, TargetArgument)
    /\ IF mcpUrlSet /\ issues' # <<>>
       THEN ppc' = "tools" /\ UNCHANGED issueResults
       ELSE /\ ppc' = "email"
            /\ issueResults' = IF ~mcpUrlSet THEN <<[title |-> "(MCP skipped)", ok |-> FALSE]>>
                               ELSE <<>>
    /\ UNCHANGED <<pipeParams, issueNo, issueCalls, pipeOut, notPipe>>

\* analyze_api_tests raises (GOOGLE_API_KEY missing, or the model call fails).
AnalyzeFails ==
    /\ ppc = "idle"
    /\ ppc' = "raised"
    /\ pipeOut' = [kind |-> "raised", error |-> "AnalysisFailed"]
    /\ UNCHANGED <<pipeParams, issues, issueNo, issueCalls, issueResults, notPipe>>

\* _open_github_issues_with_mcp: client.get_tools() answers with a create-issue tool.
GetToolsOk ==
    /\ ppc = "tools"
    /\ ppc' = "issues"
    /\ UNCHANGED <<pipeParams, issues, issueNo, issueCalls, issueResults, pipeOut, notPipe>>

\* client.get_tools() raises or exposes no issue tool: analyze_api_tests catches it.
GetToolsFails ==
    /\ ppc = "tools"
    /\ ppc' = "email"
    /\ issueResults' = <<[title |-> "(MCP error)", ok |-> FALSE]>>
    /\ UNCHANGED <<pipeParams, issues, issueNo, issueCalls, pipeOut, notPipe>>

\* The issue the loop of _open_github_issues_with_mcp is at.
CurrentIssue == issues[issueNo + 1]
InIssueLoop == ppc = "issues" /\ issueNo < Len(issues)

\* if not owner or not repo: raise ValueError
Parses(repoString) ==
    parse_github_repo(repoString).owner # <<>> /\ parse_github_repo(repoString).repo # <<>>

\* payload = {"owner": owner, "repo": repo, "title": title, "body": body}
PayloadOf(issue) ==
    [owner |-> parse_github_repo(issue.repo).owner,
     repo |-> parse_github_repo(issue.repo).repo,
     title |-> issue.title]

\* The repository of the issue does not parse: the ValueError is recorded as the
\* issue's result and no tool call is made.
IssueUnparsable ==
    /\ InIssueLoop
    /\ ~Parses(CurrentIssue.repo)
    /\ issueResults' = Append(issueResults, [title |-> CurrentIssue.title, ok |-> FALSE])
    /\ issueNo' = issueNo + 1
    /\ UNCHANGED <<pipeParams, ppc, issues, issueCalls, pipeOut, notPipe>>

\* create_issue_tool.ainvoke(payload) answers.
CreateIssueOk ==
    /\ InIssueLoop
    /\ Parses(CurrentIssue.repo)
    /\ issueCalls' = Append(issueCalls, PayloadOf(CurrentIssue))
    /\ issueResults' = Append(issueResults, [title |-> CurrentIssue.title, ok |-> TRUE])
    /\ issueNo' = issueNo + 1
    /\ UNCHANGED <<pipeParams, ppc, issues, pipeOut, notPipe>>

\* create_issue_tool.ainvoke(payload) raises: the error is recorded.
CreateIssueFails ==
    /\ InIssueLoop
    /\ Parses(CurrentIssue.repo)
    /\ issueCalls' = Append(issueCalls, PayloadOf(CurrentIssue))
    /\ issueResults' = Append(issueResults, [title |-> CurrentIssue.title, ok |-> FALSE])
    /\ issueNo' = issueNo + 1
    /\ UNCHANGED <<pipeParams, ppc, issues, pipeOut, notPipe>>

\* The loop over the issues ends and analyze_api_tests returns.
IssuesDone ==
    /\ ppc = "issues"
    /\ issueNo = Len(issues)
    /\ ppc' = "email"
    /\ UNCHANGED <<pipeParams, issues, issueNo, issueCalls, issueResults, pipeOut, notPipe>>

\* sum(1 for r in issue_results if r.get("ok")), under the test of run_ai_pipeline
\* "if create_github_issues and target_repo and issues" and "if issue_results".
RECURSIVE CountOk(_)
CountOk(results) ==
    IF results = <<>> THEN 0
    ELSE (IF Head(results).ok THEN 1 ELSE 0) + CountOk(Tail(results))
ReportedCreated ==
    IF createIssues /\ targetRepo # <<>> /\ issues # <<>> THEN CountOk(issueResults) ELSE 0

\* generate_email_json and send_email answer: run_ai_pipeline returns its result.
SendEmail ==
    /\ ppc = "email"
    /\ ppc' = "done"
    /\ pipeOut' = [kind |-> "returned", issues_count |-> Len(issues),
                   issues_created |-> ReportedCreated]
    /\ UNCHANGED <<pipeParams, issues, issueNo, issueCalls, issueResults, notPipe>>

\* generate_email_json or send_email raises: run_ai_pipeline has no handler.
SendEmailFails ==
    /\ ppc = "email"
    /\ ppc' = "raised"
    /\ pipeOut' = [kind |-> "raised", error |-> "EmailFailed"]
    /\ UNCHANGED <<pipeParams, issues, issueNo, issueCalls, issueResults, notPipe>>

NextPipe ==
    \/ Analyze
    \/ AnalyzeFails
    \/ GetToolsOk
    \/ GetToolsFails
    \/ IssueUnparsable
    \/ CreateIssueOk
    \/ CreateIssueFails
    \/ IssuesDone
    \/ SendEmail
    \/ SendEmailFails

SpecPipe == InitPipe /\ [][NextPipe]_vars

-----------------------------------------------------------------------------
(* Claims about the identifier normalizer, checked under SpecNorm *)

\* What a caller of _generate_index_name sees: the identifier, or the ValueError.
IdentOutcome(o) == IF o.out.ok THEN <<"identifier", o.out.ident>> ELSE <<"ValueError">>

\* C2: for every owner and name, the reference forms owner/name,
\* https://github.com/owner/name, the same with .git and the same with a trailing
\* slash all give the same outcome of _generate_index_name (the same identifier).
C2_FormsAgree ==
    \A f, g \in Forms :
        (formOut[f].called /\ formOut[g].called) => IdentOutcome(formOut[f]) = IdentOutcome(formOut[g])

C2_Witness ==
    /\ \A f \in Forms : formOut[f].called /\ formOut[f].out.ok
    /\ Len(refName) = 2
    /\ formOut["bare"].out.repo = refName
    /\ formOut["url_git"].out.ident = formOut["bare"].out.ident

Foo == <<"F", "o", "o">>
Bar == <<"B", "a", "r">>

\* C3: the reference "HTTPS://GitHub.com/Foo/Bar.git/" is parsed to ("Foo", "Bar") and
\* gives the identifier "foo-bar"; it does not fail.
C3_MixedCaseAccepted ==
    (lastRef = RefMixedCase /\ lastOut.called) =>
        /\ lastOut.out.ok
        /\ lastOut.out.owner = Foo
        /\ lastOut.out.repo = Bar
        /\ lastOut.out.ident = <<"f", "o", "o", "-", "b", "a", "r">>

EndsWithGit(name) ==
    Len(name) >= 4 /\ SubSeq(name, Len(name) - 3, Len(name)) = <<".", "g", "i", "t">>

\* C4: for every bare reference owner/name whose name does not end in ".git",
\* parse_github_url returns exactly (owner, name).
C4_BareParsedExactly ==
    (formOut["bare"].called /\ ~EndsWithGit(refName)) =>
        /\ formOut["bare"].out.ok
        /\ formOut["bare"].out.owner = refOwner
        /\ formOut["bare"].out.repo = refName

AllowedIdentChars == AsciiLower \cup AsciiDigit \cup {"-"}

\* C5: the identifier derived from (owner, name) has the length of owner + "-" + name
\* and holds only characters of [a-z0-9-].
C5_IdentShape ==
    \A f \in Forms :
        (formOut[f].called /\ formOut[f].out.ok) =>
            /\ Len(formOut[f].out.ident) = Len(formOut[f].out.owner) + 1 + Len(formOut[f].out.repo)
            /\ \A k \in 1..Len(formOut[f].out.ident) : formOut[f].out.ident[k] \in AllowedIdentChars

-----------------------------------------------------------------------------
(* Claims about the tree walker, checked under SpecWalk *)

\* The eligible files of the repository: extension .py and no excluded path segment.
EligibleFiles ==
    {f \in repoFiles : Suffix(f[Len(f)]) = ".py" /\ \A k \in 1..Len(f) : f[k] \notin EXCLUDED_DIRS}

Range(q) == {q[k] : k \in 1..Len(q)}

Min(a, b) == IF a <= b THEN a ELSE b

\* Directories met in the loop whose listing failed, and files whose decoding failed.
FailedDirs == {x.path : x \in {y \in listFail : y.path # <<>>}}
FailedFiles == {x.path : x \in decodeFail}

\* The eligible files no failure hides.
ReachableEligible ==
    {f \in EligibleFiles : f \notin FailedFiles /\ ~\E d \in FailedDirs : IsPrefix(d, f)}

\* C7: in every state of a walk with max_files = N > 0 at most N files are collected,
\* and the returned list has at most N entries.
C7_AtMostMaxFiles ==
    /\ Len(pythonFiles) <= maxFiles
    /\ walkOut.kind = "returned" => Len(walkOut.files) <= maxFiles

C7_Witness ==
    /\ walkOut.kind = "returned"
    /\ maxFiles = 2
    /\ Len(walkOut.files) = 2
    /\ Cardinality(EligibleFiles) > 2
    /\ contents # <<>>

\* C8 as stated: a walk that returns gives the empty list only when the repository
\* holds zero eligible files.
C8_EmptyOnlyIfNoEligible ==
    (walkOut.kind = "returned" /\ walkOut.files = <<>>) => EligibleFiles = {}

\* C8 amended: a walk that returns gives the empty list only when every eligible file
\* of the repository failed to decode or lies under a directory whose listing failed.
C8_EmptyOnlyIfNoneReachable ==
    (walkOut.kind = "returned" /\ walkOut.files = <<>>) => ReachableEligible = {}

C8_Witness ==
    /\ walkOut.kind = "returned"
    /\ walkOut.files = <<>>
    /\ Cardinality(EligibleFiles) >= 2
    /\ FailedDirs # {}
    /\ FailedFiles # {}

\* C9: when no listing and no decode fails, a walk with max_files = N over a
\* repository with E eligible files returns exactly min(N, E) entries.
C9_ExactlyMin ==
    (walkOut.kind = "returned" /\ listFail = {} /\ decodeFail = {}) =>
        Len(walkOut.files) = Min(maxFiles, Cardinality(EligibleFiles))

C9_Witness ==
    /\ walkOut.kind = "returned"
    /\ listFail = {} /\ decodeFail = {}
    /\ maxFiles = 2
    /\ Cardinality(EligibleFiles) = 5
    /\ Len(walkOut.files) = 2

RateLimitAnswered ==
    \/ walkOut.kind = "raised" /\ walkOut.error = "RuntimeError_RateLimit"
    \/ \E x \in listFail : x.status = 403
    \/ \E x \in decodeFail : x.kind = "GithubException403"

\* C11: a walk that met a rate-limit response at any point (repository lookup, root
\* listing, subdirectory listing, file fetch) and is over ended with the rate-limit
\* error, and returned no file list.
C11_RateLimitEndsCall ==
    (RateLimitAnswered /\ wpc \in {"done", "raised"}) =>
        /\ walkOut.kind = "raised"
        /\ walkOut.error = "RuntimeError_RateLimit"

\* The loop is about to take the directory entry at the head of the queue.
AtDirEntry == wpc = "loop" /\ LoopCondition /\ Head(contents).type = "dir"

\* C27: the iteration on a directory entry requests its listing if and only if the
\* top segment of its path is not in EXCLUDED_DIRS; and every collected file has the
\* extension .py and no path segment, at any depth, in EXCLUDED_DIRS.
C27_WalkFilter ==
    /\ [][AtDirEntry =>
            /\ Head(contents).path \notin listReq
            /\ (Head(contents).path \in listReq') <=> (Head(contents).path[1] \notin EXCLUDED_DIRS)]_vars
    /\ [](\A k \in 1..Len(pythonFiles) :
            /\ Suffix(pythonFiles[k][Len(pythonFiles[k])]) = ".py"
            /\ \A j \in 1..Len(pythonFiles[k]) : pythonFiles[k][j] \notin EXCLUDED_DIRS)

C27_Witness ==
    /\ walkOut.kind = "returned"
    /\ listFail = {} /\ decodeFail = {}
    /\ listReq = {<<>>, <<"src">>, <<"src", "build">>, <<"src", "pkg">>}
    /\ Range(walkOut.files) = {<<"a.py">>, <<"src", "pkg", "p.py">>}
    /\ {<<"venv", "v.py">>, <<"src", "build", "g.py">>, <<"src", "pkg", "q.pyc">>} \subseteq repoFiles

\* max_files results are collected.
LimitReached == Len(pythonFiles) >= maxFiles

\* C28: once max_files files are collected the walk has left the loop, and no step
\* after that requests a listing or a file's content, appends a file or takes an
\* entry from the pending queue: the entries still queued are never looked at.
C28_StopsAtOnce ==
    /\ [](LimitReached => wpc \in {"break", "done"})
    /\ [][LimitReached =>
            /\ listReq' = listReq /\ decodeReq' = decodeReq
            /\ pythonFiles' = pythonFiles /\ contents' = contents
            /\ walkOut'.kind = "returned" /\ walkOut'.files = pythonFiles]_vars

C28_Witness ==
    /\ walkOut.kind = "returned"
    /\ maxFiles = 1 /\ walkOut.files = << <<"a.py">> >>
    /\ \E k \in 1..Len(contents) : contents[k] = EntryOf(<<"src">>)
    /\ \E k \in 1..Len(contents) : contents[k] = EntryOf(<<"z.py">>)
    /\ listReq = {<<>>} /\ decodeReq = {<<"a.py">>}

-----------------------------------------------------------------------------
(* Claims about the chunk extractor, checked under SpecChunk *)

\* The chunks parse_python_file gives for file k of the fetched list.
ChunksOfFile(k) == parse_python_file(fetched[k].content, fetched[k].path, RepoId)

\* C12: every call of parse_python_file on a content the parser rejects returns the
\* empty list and does not raise; a run of pull_and_chunk_repo is never ended by an
\* exception of a file's parsing, and when it returns, the list holds every chunk of
\* every file the parser accepts.
C12_BadFileNeverAborts ==
    /\ \A k \in 1..Len(parseLog) :
           ~ast_parse(parseLog[k].content).ok =>
               parseLog[k].out = [kind |-> "returned", chunks |-> <<>>]
    /\ chunkOut.kind # "raised"
    /\ chunkOut.kind = "returned" =>
           \A k \in 1..Len(fetched) :
               ast_parse(fetched[k].content).ok =>
                   \A c \in Range(ChunksOfFile(k).chunks) : c \in Range(chunkOut.chunks)

\* The tree holds one class, one function nested in it, and no other definition.
OneClassOneFunction(tree) ==
    \E c, f \in 1..Len(tree) :
        /\ tree[c].kind = "class" /\ tree[f].kind = "def"
        /\ c < f /\ f <= end_lineno(tree, c)
        /\ \A n \in 1..Len(tree) : tree[n].kind \in HeaderKinds => n \in {c, f}

\* The lines of the inner text are a run of the lines of the outer text.
LinesInside(inner, outer) ==
    \E off \in 0..(Len(split_lf(outer)) - Len(split_lf(inner))) :
        SubSeq(split_lf(outer), off + 1, off + Len(split_lf(inner))) = split_lf(inner)

StrictlyInside(inner, outer) ==
    LinesInside(inner, outer) /\ Len(split_lf(inner)) < Len(split_lf(outer))

\* C13: for a file that holds one class with one function nested in it,
\* parse_python_file returns exactly two chunks, and the lines of the inner chunk are
\* a strict sub-range of the lines of the outer chunk; in every parsed file the lines
\* of the chunk of a nested definition lie inside those of its enclosing definition.
C13_NestedTwoChunks ==
    \A k \in 1..Len(parseLog) :
        LET e == parseLog[k]
            p == ast_parse(e.content)
        IN  p.ok =>
              /\ OneClassOneFunction(p.tree) =>
                    /\ e.out.kind = "returned"
                    /\ Len(e.out.chunks) = 2
                    /\ StrictlyInside(e.out.chunks[2].text.body, e.out.chunks[1].text.body)
              /\ \A n, m \in 1..Len(p.tree) :
                    (/\ n < m /\ m <= end_lineno(p.tree, n)
                     /\ Emits(e.content, p.tree, n) /\ Emits(e.content, p.tree, m)) =>
                        LinesInside(ChunkText(e.content, p.tree, m), ChunkText(e.content, p.tree, n))

\* The definition nodes of a tree: function, asynchronous function and class
\* definitions, by line.
DefinitionNodes(tree) == {n \in 1..Len(tree) : tree[n].kind \in HeaderKinds}

\* C24: for every content that parses, parse_python_file returns as many chunks as
\* the tree has definition nodes (asynchronous function definitions included).
C24_OneChunkPerDefinition ==
    \A k \in 1..Len(parseLog) :
        ast_parse(parseLog[k].content).ok =>
            /\ parseLog[k].out.kind = "returned"
            /\ Len(parseLog[k].out.chunks) =
                   Cardinality(DefinitionNodes(ast_parse(parseLog[k].content).tree))

\* The nodes of a tree in pre-order: a statement comes before the statements of its
\* body and after everything of the statements before it, which is the line order.
PreOrder(tree) == [n \in 1..Len(tree) |-> n]

\* C25: for every content that parses, the chunks parse_python_file returns are the
\* chunks of the tree's nodes taken in pre-order.
C25_ChunksInPreOrder ==
    \A k \in 1..Len(parseLog) :
        LET e == parseLog[k]
            p == ast_parse(e.content)
        IN  p.ok =>
              /\ e.out.kind = "returned"
              /\ e.out.chunks = ChunksOfNodes(e.content, e.path, RepoId, p.tree, PreOrder(p.tree))

\* "{repo_id}:{file_path}:{chunk_name}"
IdOf(repoId, path, name) == repoId \o <<":">> \o path \o <<":">> \o name

RECURSIVE Flatten(_)
Flatten(lists) == IF lists = <<>> THEN <<>> ELSE Head(lists) \o Flatten(Tail(lists))

\* C26: the id of every chunk is "{owner}/{name}:{path}:{symbolName}"; in the list
\* pull_and_chunk_repo returns, which is the list handed to create_index, two chunks
\* have the same id exactly when they have the same path and the same symbol name,
\* and the list holds every chunk every call of parse_python_file returned, chunks
\* with the same id included.
C26_ChunkIds ==
    /\ \A k \in 1..Len(parseLog) :
           parseLog[k].out.kind = "returned" =>
               \A c \in Range(parseLog[k].out.chunks) :
                   /\ c.text.file = parseLog[k].path
                   /\ c.id = IdOf(RepoId, parseLog[k].path, c.text.name)
    /\ chunkOut.kind = "returned" =>
           /\ chunkOut.chunks = Flatten([k \in 1..Len(parseLog) |-> parseLog[k].out.chunks])
           /\ \A i, j \in 1..Len(chunkOut.chunks) :
                  (chunkOut.chunks[i].id = chunkOut.chunks[j].id) <=>
                      /\ chunkOut.chunks[i].text.file = chunkOut.chunks[j].text.file
                      /\ chunkOut.chunks[i].text.name = chunkOut.chunks[j].text.name

C26_Witness ==
    /\ chunkOut.kind = "returned"
    /\ Len(fetched) = 2
    /\ \A k \in 1..2 : fetched[k].content = JoinLines(SameNameTwice, <<LF>>)
    /\ Len(chunkOut.chunks) = 4
    /\ chunkOut.chunks[1].id = chunkOut.chunks[2].id
    /\ chunkOut.chunks[1].id = <<"a", "/", "b", ":", "a", ".", "p", "y", ":", "f">>
    /\ chunkOut.chunks[3].id = chunkOut.chunks[4].id
    /\ chunkOut.chunks[3].id # chunkOut.chunks[1].id

-----------------------------------------------------------------------------
(* Claims about the index lifecycle and the search accessor, checked under SpecIdx *)

\* Two successive calls of create_moss_index by one caller, same chunks, same
\* identifier, skip_if_exists = true, both returned, every service call answered.
TwoCreateCallsDone ==
    /\ skipFlag
    /\ Len(ops) = 2
    /\ \A k \in 1..2 : ops[k].kind = "create_moss_index" /\ ops[k].out.kind = "returned"
    /\ ops[1].caller = ops[2].caller
    /\ ops[1].arg = ops[2].arg
    /\ \A k \in 1..Len(svcLog) : svcLog[k].ok

\* C1: two successive calls of create_moss_index with the same chunks, the same
\* identifier and skip_if_exists = true issue exactly one create_index call in total.
C1_OneCreationInTwoCalls ==
    TwoCreateCallsDone =>
        Len(SelectSeq(svcLog, LAMBDA e : e.call = "create_index")) = 1

\* C6: whenever index_github_repo(r) returned the identifier i, every load and query
\* call that search_code(r, ...) and search_code(i, ...) send goes to index i.
C6_ReadPathSameIndex ==
    \A k \in 1..Len(ops) :
        (ops[k].kind = "index_github_repo" /\ ops[k].out.kind = "returned") =>
            \A j \in 1..Len(ops) :
                (ops[j].kind = "search_code" /\ ops[j].arg \in {ops[k].arg, ops[k].out.value}) =>
                    \A e \in 1..Len(svcLog) :
                        svcLog[e].op = j => svcLog[e].name = ops[k].out.value

C6_Witness ==
    /\ Len(ops) = 3
    /\ ops[1].kind = "index_github_repo" /\ ops[1].out.kind = "returned"
    /\ ops[1].arg = RefABGit /\ ops[1].out.value = NameAB
    /\ ops[2].kind = "search_code" /\ ops[2].arg = RefABGit /\ ops[2].out.kind = "returned"
    /\ ops[3].kind = "search_code" /\ ops[3].arg = NameAB /\ ops[3].out.kind = "returned"
    /\ \A j \in {2, 3} :
           /\ Len(CallsOf(j, "load_index")) = 1 /\ CallsOf(j, "load_index")[1].name = NameAB
           /\ Len(CallsOf(j, "query")) = 1 /\ CallsOf(j, "query")[1].name = NameAB

\* The positions in the service log of the calls of one kind that operation id sent.
CallPositions(id, call) == {e \in 1..Len(svcLog) : svcLog[e].op = id /\ svcLog[e].call = call}

\* Every call operation id sent to the index service.
AllCallsOf(id) == SelectSeq(svcLog, LAMBDA e : e.op = id)

\* C14: create_moss_index called with an empty chunk list raises the empty-chunks
\* ValueError, and index_github_repo on a repository that yields zero chunks raises;
\* neither has sent any call (list_indexes, create_index, load_index) to the service.
C14_EmptyChunksFailFast ==
    repoChunks = 0 =>
        \A k \in 1..Len(ops) :
            /\ ops[k].kind = "create_moss_index" =>
                   ops[k].out = [kind |-> "raised", error |-> "ValueError_EmptyChunks"]
            /\ ops[k].kind = "index_github_repo" =>
                   /\ ops[k].out.kind = "raised"
                   /\ ops[k].out.error \in {"ValueError_NoChunks", "ValueError_InvalidUrl", "PullFailed"}
            /\ ops[k].kind \in {"create_moss_index", "index_github_repo"} => AllCallsOf(k) = <<>>

C14_Witness ==
    /\ repoChunks = 0 /\ haveCredentials
    /\ Len(ops) = 2
    /\ ops[1].kind = "create_moss_index" /\ ops[1].out = [kind |-> "raised", error |-> "ValueError_EmptyChunks"]
    /\ ops[2].kind = "index_github_repo" /\ ops[2].out = [kind |-> "raised", error |-> "ValueError_NoChunks"]
    /\ svcLog = <<>>

\* The lifecycle operation of entry k ended with an error. The TypeError of
\* search_github_repo is raised after its index_github_repo call returned.
LifecycleRaised(k) ==
    /\ ops[k].out.kind = "raised"
    /\ ops[k].out # [kind |-> "raised", error |-> "TypeError_UnexpectedKeyword"]

\* C15: with skip_if_exists = true, after the listing call of a lifecycle operation
\* failed, the operation is about to send its creation call or has sent it, and it
\* ends with an error only when that creation call or the later load call failed.
C15_ListingFailureSwallowed ==
    \A e \in 1..Len(svcLog) :
        (svcLog[e].call = "list_indexes" /\ ~svcLog[e].ok) =>
            LET k == svcLog[e].op
            IN  /\ skipFlag
                /\ \/ ops[k].out.kind = "running" /\ frame[ops[k].caller].pc = "create"
                   \/ \E j \in CallPositions(k, "create_index") : j > e
                /\ LifecycleRaised(k) =>
                       \E j \in (e + 1)..Len(svcLog) :
                           /\ svcLog[j].op = k /\ ~svcLog[j].ok
                           /\ svcLog[j].call \in {"create_index", "load_index"}

C15_Witness ==
    /\ Len(ops) >= 1
    /\ ops[1].kind = "create_moss_index" /\ ops[1].out.kind = "returned"
    /\ Len(AllCallsOf(1)) = 2
    /\ AllCallsOf(1)[1].call = "list_indexes" /\ ~AllCallsOf(1)[1].ok
    /\ AllCallsOf(1)[2].call = "create_index" /\ AllCallsOf(1)[2].ok

\* C16: an operation whose creation call failed has ended with the creation error,
\* has sent exactly one create_index call, and has sent no call after it (no load).
C16_CreationFailureIsFinal ==
    \A e \in 1..Len(svcLog) :
        (svcLog[e].call = "create_index" /\ ~svcLog[e].ok) =>
            LET k == svcLog[e].op
            IN  /\ ops[k].out = [kind |-> "raised", error |-> "RuntimeError_IndexCreation"]
                /\ Len(CallsOf(k, "create_index")) = 1
                /\ CallsOf(k, "load_index") = <<>>
                /\ \A j \in (e + 1)..Len(svcLog) : svcLog[j].op # k

C16_Witness ==
    /\ Len(ops) = 2
    /\ ops[1].kind = "index_github_repo" /\ ops[1].out = [kind |-> "raised", error |-> "RuntimeError_IndexCreation"]
    /\ ops[2].kind = "index_github_repo" /\ ops[2].out.kind = "returned"
    /\ Len(CallsOf(1, "create_index")) = 1 /\ CallsOf(1, "load_index") = <<>>
    /\ Len(CallsOf(2, "load_index")) = 1

\* C17: an index_github_repo run that returned an identifier sent exactly one
\* load_index call, for that identifier, after every listing and creation call it
\* sent, the creation step having ended (index created, or creation skipped after a
\* listing); a run whose load call failed ended with the load error.
C17_OneLoadAfterCreation ==
    \A k \in 1..Len(ops) :
        ops[k].kind = "index_github_repo" =>
            /\ ops[k].out.kind = "returned" =>
                   /\ Len(CallsOf(k, "load_index")) = 1
                   /\ CallsOf(k, "load_index")[1].name = ops[k].out.value
                   /\ CallsOf(k, "load_index")[1].ok
                   /\ \A l \in CallPositions(k, "load_index") :
                          \A j \in CallPositions(k, "list_indexes") \cup CallPositions(k, "create_index") :
                              j < l
                   /\ \/ Len(CallsOf(k, "create_index")) = 1 /\ CallsOf(k, "create_index")[1].ok
                      \/ CallsOf(k, "create_index") = <<>> /\ Len(CallsOf(k, "list_indexes")) = 1
            /\ (\E l \in CallPositions(k, "load_index") : ~svcLog[l].ok) =>
                   ops[k].out = [kind |-> "raised", error |-> "RuntimeError_IndexLoad"]

C17_Witness ==
    /\ Len(ops) = 2
    /\ \A k \in 1..2 : ops[k].kind = "index_github_repo" /\ ops[k].caller = "c1"
    /\ ops[1].out.kind = "returned"
    /\ Len(CallsOf(1, "create_index")) = 1 /\ Len(CallsOf(1, "load_index")) = 1
    /\ CallsOf(2, "create_index") = <<>>
    /\ Len(CallsOf(2, "load_index")) = 1 /\ ~CallsOf(2, "load_index")[1].ok
    /\ ops[2].out.kind = "raised"

\* C18: a search_code call that returned gives the first min(top_k, n) documents of
\* the n-document response of its query call, in the order of the response.
C18_FirstTopK ==
    \A k \in 1..Len(ops) :
        (ops[k].kind = "search_code" /\ ops[k].out.kind = "returned") =>
            /\ Len(CallsOf(k, "query")) = 1
            /\ Len(ops[k].out.value) = Min(topK, Len(CallsOf(k, "query")[1].docs))
            /\ \A i \in 1..Len(ops[k].out.value) :
                   ops[k].out.value[i] = CallsOf(k, "query")[1].docs[i]

C18_Witness ==
    /\ topK = 3
    /\ \E k \in 1..Len(ops) :
           /\ ops[k].kind = "search_code"
           /\ ops[k].out = [kind |-> "returned", value |-> <<1, 2, 3>>]
           /\ Len(CallsOf(k, "query")) = 1
           /\ Len(CallsOf(k, "query")[1].docs) = 10

\* C19: a search_code call with auto_load = false sends no load call; with
\* auto_load = true it sends one load call before its query call, whatever the load
\* answers: once the load call is sent the call is about to send its query or has
\* sent it; and the call ends with an error only when its query call failed.
C19_LoadIsBestEffort ==
    \A k \in 1..Len(ops) :
        (ops[k].kind = "search_code" /\ haveCredentials) =>
            /\ ~autoLoad => CallsOf(k, "load_index") = <<>>
            /\ autoLoad =>
                   /\ Len(CallsOf(k, "load_index")) <= 1
                   /\ \A q \in CallPositions(k, "query") :
                          \E l \in CallPositions(k, "load_index") : l < q
                   /\ CallsOf(k, "load_index") # <<>> =>
                          \/ ops[k].out.kind = "running" /\ frame[ops[k].caller].pc = "query"
                          \/ Len(CallsOf(k, "query")) = 1
            /\ ops[k].out.kind = "raised" =>
                   /\ ops[k].out.error = "RuntimeError_Search"
                   /\ \E q \in CallPositions(k, "query") : ~svcLog[q].ok

C19_Witness ==
    /\ autoLoad
    /\ \E k \in 1..Len(ops) :
           /\ ops[k].kind = "search_code" /\ ops[k].out.kind = "returned"
           /\ ops[k].out.value # <<>>
           /\ Len(AllCallsOf(k)) = 2
           /\ AllCallsOf(k)[1].call = "load_index" /\ ~AllCallsOf(k)[1].ok
           /\ AllCallsOf(k)[2].call = "query" /\ AllCallsOf(k)[2].ok

\* C20: nothing is locked between the listing call and the creation call of a
\* lifecycle operation: while one caller is between the two, the listing call of
\* another caller can be answered, and while both are between the two, the creation
\* call of each can be sent.
C20_NoLockBetweenListAndCreate ==
    \A c, d \in Callers :
        (c # d /\ frame[c].pc = "create") =>
            /\ frame[d].pc = "list" => ENABLED ListIndexesOk(d)
            /\ frame[d].pc = "create" => ENABLED CreateIndexOk(c) /\ ENABLED CreateIndexOk(d)

\* Two concurrent create_moss_index calls for one identifier, skip_if_exists = true,
\* a service that lists names: both listings were answered before either creation
\* call, and two creation calls for the identifier were sent.
C20_Witness ==
    /\ skipFlag /\ listingShape = "str"
    /\ Len(ops) = 2 /\ Len(svcLog) = 4
    /\ ops[1].caller # ops[2].caller
    /\ \A k \in 1..2 : ops[k].kind = "create_moss_index" /\ ops[k].out.kind = "returned"
    /\ ops[1].arg = ops[2].arg
    /\ \A e \in 1..2 : svcLog[e].call = "list_indexes" /\ svcLog[e].ok
    /\ \A e \in 3..4 : svcLog[e].call = "create_index" /\ svcLog[e].ok /\ svcLog[e].name = ops[1].arg
    /\ svcLog[3].op # svcLog[4].op

\* A step in which a load_index call is answered with a failure.
LoadFailureLogged ==
    /\ Len(svcLog') > Len(svcLog)
    /\ svcLog'[Len(svcLog) + 1].call = "load_index"
    /\ ~svcLog'[Len(svcLog) + 1].ok

\* C29: when a load call of index_github_repo fails, the operation ends with the load
\* error and sends no call after it, and the step of the failure changes nothing at
\* the service: no index is deleted, created again or moved to another state, so an
\* index the operation created stays in state created.
C29_NoCleanupAfterLoadFailure ==
    /\ [](\A l \in 1..Len(svcLog) :
            (/\ svcLog[l].call = "load_index" /\ ~svcLog[l].ok
             /\ ops[svcLog[l].op].kind = "index_github_repo") =>
                /\ ops[svcLog[l].op].out = [kind |-> "raised", error |-> "RuntimeError_IndexLoad"]
                /\ \A j \in (l + 1)..Len(svcLog) : svcLog[j].op # svcLog[l].op)
    /\ [][LoadFailureLogged => indexes' = indexes /\ Len(svcLog') = Len(svcLog) + 1]_vars

C29_Witness ==
    /\ Len(ops) = 1
    /\ ops[1].kind = "index_github_repo"
    /\ ops[1].out = [kind |-> "raised", error |-> "RuntimeError_IndexLoad"]
    /\ Len(svcLog) = 3
    /\ svcLog[2].call = "create_index" /\ svcLog[2].ok
    /\ svcLog[3].call = "load_index" /\ ~svcLog[3].ok
    /\ \E x \in indexes : x.name = svcLog[2].name /\ x.state = "created" /\ Len(x.docs) = 2
    /\ Cardinality(indexes) = 1

\* Every call operation id sent to the index service was answered without failure.
AllAnswered(id) == \A e \in 1..Len(svcLog) : svcLog[e].op = id => svcLog[e].ok

\* A first run of index_github_repo whose creation call took effect ended with an
\* error, and the same caller ran it again with the same arguments; the second run is
\* over, its repository was pulled and every call it sent to the index service was
\* answered.
RetryDone ==
    /\ Len(ops) = 2
    /\ \A k \in 1..2 : ops[k].kind = "index_github_repo"
    /\ ops[1].caller = ops[2].caller /\ ops[1].arg = ops[2].arg
    /\ ops[1].out.kind = "raised"
    /\ \E e \in CallPositions(1, "create_index") : svcLog[e].ok
    /\ ops[2].out.kind # "running"
    /\ ops[2].out # [kind |-> "raised", error |-> "PullFailed"]
    /\ AllAnswered(2)

\* C21: in such a retry with skip_if_exists = true the second run sends no creation
\* call and ends, returning, with its load call; with skip_if_exists = false it sends
\* a second creation call for the same identifier.
C21_RetryIsSafe ==
    RetryDone =>
        /\ skipFlag =>
               /\ CallsOf(2, "create_index") = <<>>
               /\ ops[2].out.kind = "returned"
               /\ svcLog[Len(svcLog)].op = 2 /\ svcLog[Len(svcLog)].call = "load_index"
        /\ ~skipFlag =>
               /\ Len(CallsOf(2, "create_index")) = 1
               /\ CallsOf(2, "create_index")[1].name = CallsOf(1, "create_index")[1].name

\* "a-b-c"
NameABC == <<"a", "-", "b", "-", "c">>

\* index_github_repo("a-b/c") returned, then index_github_repo("a/b-c") was run with
\* skip_if_exists = true and is over, every call of the service answered.
OtherRepoDone ==
    /\ skipFlag
    /\ Len(ops) = 2
    /\ \A k \in 1..2 : ops[k].kind = "index_github_repo"
    /\ ops[1].arg = RefABC /\ ops[2].arg = OtherRef
    /\ ops[1].out.kind = "returned"
    /\ ops[2].out.kind # "running"
    /\ AllAnswered(1) /\ AllAnswered(2)

\* C30: the two repositories get the same identifier "a-b-c"; the second run sends no
\* creation call, returns that identifier, and the index keeps the chunks of the
\* first repository.
C30_CollidingIdentifierSkipsCreation ==
    OtherRepoDone =>
        /\ generate_index_name(RefABC).ident = NameABC
        /\ generate_index_name(OtherRef).ident = NameABC
        /\ CallsOf(2, "create_index") = <<>>
        /\ ops[2].out = [kind |-> "returned", value |-> NameABC]
        /\ \E x \in indexes :
               /\ x.name = NameABC
               /\ x.docs = ChunksOf(RepoIdOf(parse_github_url(RefABC)), repoChunks)

\* C22: a search_github_repo call whose index_github_repo step succeeded (its load
\* call was answered) and which is over has sent a query call against the identifier
\* of its repository and, when that was answered, has returned the first top_k
\* documents of the response.
C22_SearchRepoQueries ==
    \A k \in 1..Len(ops) :
        (/\ ops[k].kind = "search_github_repo"
         /\ ops[k].out.kind # "running"
         /\ \E l \in CallPositions(k, "load_index") : svcLog[l].ok) =>
            /\ \E q \in CallPositions(k, "query") :
                   /\ svcLog[q].name = generate_index_name(ops[k].arg).ident
                   /\ svcLog[q].ok =>
                          ops[k].out = [kind |-> "returned",
                                        value |-> Truncate(svcLog[q].docs, topK)]

-----------------------------------------------------------------------------
(* Claims about the analysis pipeline *)

\* C23: when run_ai_pipeline is called with create_github_issues = False, no call to
\* the issue-creation tool is made, whatever the analysis found.
C23_NoIssueCallWhenDisabled == ~createIssues => issueCalls = <<>>

====
